---------------------------- MODULE Spec2Model ----------------------------
(***************************************************************************)
(* Multi-provider metric registry with provider health tracking, ordered   *)
(* fallback, batch optimisation and cache-first batch fetch.               *)
(*                                                                         *)
(* Source: tradingagents/dataflows/metric_registry.py (DataProvider,       *)
(* BatchOptimizer, MetricRegistry) and tradingagents/dataflows/            *)
(* crypto_cache.py (CryptoCacheManager).                                   *)
(*                                                                         *)
(* Strings that the code concatenates and splits (metric and asset names,  *)
(* request identifiers "metric:asset") are sequences of tokens, so that    *)
(* f"{metric}:{asset}" and request_id.split(':') are computed, not assumed.*)
(***************************************************************************)
EXTENDS Integers, Sequences, FiniteSets, TLC

VARIABLES
    providers,      \* MetricRegistry.providers: list of DataProvider objects
    cache_enabled,  \* CryptoCacheManager.cache_enabled (set at construction)
    store,          \* the cache backend's key space (key -> stored entry)
    last,           \* observation of the last registry call: arguments, loader calls, return value
    hist,           \* log of the get_metric calls of a scenario run, oldest first
    clock,          \* the wall clock (datetime.utcnow()), in seconds
    redis_up,       \* the Redis server answers at this moment
    exec,           \* a get_metrics_batch call in progress: its executor and tasks
    stats,          \* CryptoCacheManager.cache_stats and MetricRegistry.batch_stats
    threads         \* registry calls that run concurrently, statement by statement

vars == <<providers, cache_enabled, store, last, hist, clock, redis_up, exec, stats,
          threads>>

----------------------------------------------------------------------------
(* Bounds of the model *)

\* longest request list handed to get_metrics_batch
MaxBatch == 2
\* most providers the registry holds (the four built in, plus custom ones)
MaxProviders == 5
\* cap on a provider's failure_count
MaxFailures == 4
\* number of calls of a scenario run
MaxCalls == 4
\* largest max_concurrent handed to get_metrics_batch
MaxConcurrent == 2
\* number of clock ticks of a run
MaxTicks == 3

----------------------------------------------------------------------------
(* Names: token sequences *)

COLON == ":"
DEFI_TVL == <<"defi_tvl">>
DEFI_TVL_ETH == <<"defi_tvl", ":", "ETH">>
PRICE == <<"price">>
ETH == <<"ETH">>
BTC == <<"BTC">>
USD == <<"USD">>
SOL == <<"SOL">>
ETH_USD == <<"ETH", ":", "USD">>

\* f"{metric}:{asset}"
RequestId(metric, asset) == metric \o <<COLON>> \o asset

\* request_id.split(':'): the list of parts between the separators
RECURSIVE Split(_)
Split(s) ==
    IF \A k \in 1..Len(s) : s[k] # COLON
    THEN <<s>>
    ELSE LET k == CHOOSE j \in 1..Len(s) :
                      s[j] = COLON /\ \A h \in 1..(j - 1) : s[h] # COLON
         IN <<SubSeq(s, 1, k - 1)>> \o Split(SubSeq(s, k + 1, Len(s)))

----------------------------------------------------------------------------
(* Values *)

\* Python None
None == <<"None">>
\* an empty pandas DataFrame
EmptyDataFrame == <<"DataFrame", "empty">>
\* the data a provider's loader returns for (metric, asset)
LoaderValue(name, metric, asset) == <<"data", name, metric, asset>>

\* what a loader invocation can do: raise, return None, return an empty
\* DataFrame, return data
Outcomes == {"raise", "none", "empty_df", "data"}

\* the value returned by an invocation that does not raise
Returned(outcome, name, metric, asset) ==
    CASE outcome = "none" -> None
      [] outcome = "empty_df" -> EmptyDataFrame
      [] OTHER -> LoaderValue(name, metric, asset)

\* json.loads(json.dumps(data, default=str)): a DataFrame is not JSON
\* serialisable and is stored as its str()
JsonRoundTrip(data) ==
    IF data = EmptyDataFrame THEN <<"str", "DataFrame", "empty">> ELSE data

\* the empty dict
EmptyMap == <<>>

\* dict.update
Update(f, g) ==
    [k \in (DOMAIN f) \cup (DOMAIN g) |-> IF k \in DOMAIN g THEN g[k] ELSE f[k]]

\* d[key] = value
Put(f, key, value) ==
    [k \in (DOMAIN f) \cup {key} |-> IF k = key THEN value ELSE f[k]]

----------------------------------------------------------------------------
(* DataProvider *)

HEALTH_THRESHOLD == 3

DataProvider(name, priority, available_metrics, requires_api_key) ==
    [name |-> name, priority |-> priority,
     available_metrics |-> available_metrics,
     requires_api_key |-> requires_api_key,
     failure_count |-> 0, last_success |-> "None", is_healthy |-> TRUE]

\* faulty variant: the health flag is not consulted
can_provide_any_health(p, metric) == metric \in p.available_metrics

can_provide(p, metric) == metric \in p.available_metrics /\ p.is_healthy

record_success(p) ==
    [p EXCEPT !.failure_count = 0, !.last_success = "datetime", !.is_healthy = TRUE]

\* faulty variant: the threshold is compared with > instead of >=
record_failure_late(p) ==
    [p EXCEPT !.failure_count = @ + 1,
              !.is_healthy = IF p.failure_count + 1 > HEALTH_THRESHOLD THEN FALSE ELSE @]

record_failure(p) ==
    [p EXCEPT !.failure_count = @ + 1,
              !.is_healthy = IF p.failure_count + 1 >= HEALTH_THRESHOLD THEN FALSE ELSE @]

\* faulty variant: the flag is restored, the counter is not
reset_health_flag_only(p) ==
    [p EXCEPT !.is_healthy = TRUE]

reset_health(p) ==
    [p EXCEPT !.failure_count = 0, !.is_healthy = TRUE]

----------------------------------------------------------------------------
(* Sorting by (priority, failure_count); list.sort is stable *)

\* faulty variant: the sort key is taken in descending order
SortKeyLE_descending(p, q) ==
    \/ p.priority > q.priority
    \/ p.priority = q.priority /\ p.failure_count >= q.failure_count

SortKeyLE(p, q) ==
    \/ p.priority < q.priority
    \/ p.priority = q.priority /\ p.failure_count <= q.failure_count

\* insert index i into the sorted index list s, after every element whose key is <= i's
RECURSIVE InsertSorted(_, _, _)
InsertSorted(provs, s, i) ==
    IF s = <<>> THEN <<i>>
    ELSE IF SortKeyLE(provs[Head(s)], provs[i])
         THEN <<Head(s)>> \o InsertSorted(provs, Tail(s), i)
         ELSE <<i>> \o s

RECURSIVE SortProviders(_, _)
SortProviders(provs, idx) ==
    IF idx = <<>> THEN <<>>
    ELSE InsertSorted(provs, SortProviders(provs, SubSeq(idx, 1, Len(idx) - 1)), idx[Len(idx)])

\* [p for p in providers if p.can_provide(metric)], as indices into the list
RECURSIVE AvailableFrom(_, _, _)
AvailableFrom(provs, metric, i) ==
    IF i > Len(provs) THEN <<>>
    ELSE (IF can_provide(provs[i], metric) THEN <<i>> ELSE <<>>)
         \o AvailableFrom(provs, metric, i + 1)

available_providers(provs, metric) ==
    SortProviders(provs, AvailableFrom(provs, metric, 1))


----------------------------------------------------------------------------
(* MetricRegistry.get_metric *)

\* result is not None and not (isinstance(result, pd.DataFrame) and result.empty)
NonEmpty(result) == result # None /\ result # EmptyDataFrame

\* a loader invocation as the call log records it: the provider invoked (its
\* index and whether it was Healthy at that moment), the arguments, the outcome
Call(provs, i, metric, asset, outcome) ==
    [provider |-> i, healthy |-> provs[i].is_healthy, metric |-> metric,
     asset |-> asset, outcome |-> outcome]

\* faulty variant: no except clause, the loader's exception leaves the loop
GetMetricBody_uncaught(p, outcome, metric, asset) ==
    IF outcome = "raise"
    THEN [provider |-> p, returned |-> FALSE, raised |-> TRUE, value |-> None]
    ELSE LET result == Returned(outcome, p.name, metric, asset)
         IN IF NonEmpty(result)
            THEN [provider |-> record_success(p), returned |-> TRUE, raised |-> FALSE,
                  value |-> result]
            ELSE [provider |-> p, returned |-> FALSE, raised |-> FALSE, value |-> None]

\* one iteration of the fallback loop: the try / except around the loader call
GetMetricBody(p, outcome, metric, asset) ==
    IF outcome = "raise"
    THEN [provider |-> record_failure(p), returned |-> FALSE, raised |-> FALSE, value |-> None]
    ELSE LET result == Returned(outcome, p.name, metric, asset)
         IN IF NonEmpty(result)
            THEN [provider |-> record_success(p), returned |-> TRUE, raised |-> FALSE,
                  value |-> result]
            ELSE [provider |-> p, returned |-> FALSE, raised |-> FALSE, value |-> None]

\* for provider in available_providers: ... ; return None
RECURSIVE GetMetricLoop(_, _, _, _, _, _, _)
GetMetricLoop(provs, avail, oc, k, calls, metric, asset) ==
    IF k > Len(avail)
    THEN [providers |-> provs, calls |-> calls, result |-> None, raised |-> FALSE]
    ELSE LET i == avail[k]
             step == GetMetricBody(provs[i], oc[k], metric, asset)
             provs2 == [provs EXCEPT ![i] = step.provider]
             calls2 == Append(calls, Call(provs, i, metric, asset, oc[k]))
         IN IF step.raised
            THEN [providers |-> provs2, calls |-> calls2, result |-> None, raised |-> TRUE]
            ELSE IF step.returned
                 THEN [providers |-> provs2, calls |-> calls2, result |-> step.value,
                       raised |-> FALSE]
                 ELSE GetMetricLoop(provs2, avail, oc, k + 1, calls2, metric, asset)

\* faulty variant: a success resets the health of every provider
get_metric_resetting(provs, metric, asset, oc) ==
    LET avail == available_providers(provs, metric)
        r == GetMetricLoop(provs, avail, oc, 1, <<>>, metric, asset)
    IN IF avail = <<>>
       THEN [providers |-> provs, calls |-> <<>>, result |-> None, raised |-> FALSE]
       ELSE IF r.result # None
            THEN [r EXCEPT !.providers =
                     [i \in 1..Len(provs) |->
                         IF \E c \in 1..Len(r.calls) : r.calls[c].provider = i
                         THEN r.providers[i] ELSE reset_health(r.providers[i])]]
            ELSE r
\* faulty variant: a request nobody can serve counts as a failure of every
\* provider
get_metric_penalising(provs, metric, asset, oc) ==
    LET avail == available_providers(provs, metric)
    IN IF avail = <<>>
       THEN [providers |-> [i \in 1..Len(provs) |-> record_failure(provs[i])],
             calls |-> <<>>, result |-> None, raised |-> FALSE]
       ELSE GetMetricLoop(provs, avail, oc, 1, <<>>, metric, asset)
\* oc[k] is what the loader of the k-th provider in fallback order does if invoked
get_metric(provs, metric, asset, oc) ==
    LET avail == available_providers(provs, metric)
    IN IF avail = <<>>
       THEN [providers |-> provs, calls |-> <<>>, result |-> None, raised |-> FALSE]
       ELSE GetMetricLoop(provs, avail, oc, 1, <<>>, metric, asset)

----------------------------------------------------------------------------
(* SmartTTLStrategy and the wall clock *)

\* DataVolatility, in the order of the enumeration
VolatilityClasses == <<"ultra_high", "high", "medium", "low", "very_low">>

\* faulty variant: MEDIUM is given a longer base TTL than LOW
TTL_MAPPING_unordered ==
    [c \in {"ultra_high", "high", "medium", "low", "very_low"} |->
        CASE c = "ultra_high" -> 10
          [] c = "high" -> 30
          [] c = "medium" -> 600
          [] c = "low" -> 300
          [] OTHER -> 900]

\* SmartTTLStrategy.TTL_MAPPING
TTL_MAPPING ==
    [c \in {"ultra_high", "high", "medium", "low", "very_low"} |->
        CASE c = "ultra_high" -> 10
          [] c = "high" -> 30
          [] c = "medium" -> 60
          [] c = "low" -> 300
          [] OTHER -> 900]

\* SmartTTLStrategy.DATA_TYPE_VOLATILITY, in the dict's insertion order
DATA_TYPE_VOLATILITY ==
    << << <<"order", "_", "book">>, "ultra_high" >>,
       << <<"order", "_", "book", "_", "depth">>, "ultra_high" >>,
       << <<"live", "_", "price">>, "ultra_high" >>,
       << <<"spread", "_", "analysis">>, "ultra_high" >>,
       << <<"price", "_", "data">>, "high" >>,
       << <<"ohlcv", "_", "1m">>, "high" >>,
       << <<"ohlcv", "_", "5m">>, "high" >>,
       << <<"volume", "_", "analysis">>, "high" >>,
       << <<"arbitrage", "_", "opportunities">>, "high" >>,
       << <<"whale", "_", "movements">>, "medium" >>,
       << <<"exchange", "_", "flow", "s">>, "medium" >>,
       << <<"ohlcv", "_", "1h">>, "medium" >>,
       << <<"market", "_", "sentiment">>, "medium" >>,
       << <<"technical", "_", "indicators">>, "medium" >>,
       << <<"network", "_", "metrics">>, "low" >>,
       << <<"active", "_", "address", "es">>, "low" >>,
       << <<"hash", "_", "rate">>, "low" >>,
       << <<"transactions", "_", "count">>, "low" >>,
       << <<"ohlcv", "_", "4h">>, "low" >>,
       << <<"ohlcv", "_", "1d">>, "low" >>,
       << <<"market", "_", "cap">>, "very_low" >>,
       << <<"supply", "_", "metrics">>, "very_low" >>,
       << <<"token", "_", "info">>, "very_low" >>,
       << <<"historical", "_", "data">>, "very_low" >> >>

\* DATA_TYPE_VOLATILITY.get(data_type, DataVolatility.MEDIUM)
VolatilityOf(data_type) ==
    IF \E j \in 1..Len(DATA_TYPE_VOLATILITY) : DATA_TYPE_VOLATILITY[j][1] = data_type
    THEN DATA_TYPE_VOLATILITY[CHOOSE j \in 1..Len(DATA_TYPE_VOLATILITY) :
                                 DATA_TYPE_VOLATILITY[j][1] = data_type][2]
    ELSE "medium"

MIN_TTL == 5

\* faulty variant: in a high-volatility period the off-hours doubling is
\* not applied
get_ttl_exclusive(data_type, market_hours, high_volatility_period) ==
    LET base_ttl == TTL_MAPPING[VolatilityOf(data_type)]
    IN IF high_volatility_period
       THEN (IF base_ttl \div 2 > MIN_TTL THEN base_ttl \div 2 ELSE MIN_TTL)
       ELSE IF ~market_hours THEN base_ttl * 2 ELSE base_ttl

\* SmartTTLStrategy.get_ttl; int(base_ttl * 0.5) of a non-negative integer is
\* base_ttl \div 2
get_ttl(data_type, market_hours, high_volatility_period) ==
    LET base_ttl == TTL_MAPPING[VolatilityOf(data_type)]
        doubled == IF ~market_hours THEN base_ttl * 2 ELSE base_ttl
    IN IF high_volatility_period
       THEN (IF doubled \div 2 > MIN_TTL THEN doubled \div 2 ELSE MIN_TTL)
       ELSE doubled

\* str.lower() on the tokens of the model
LowerToken(t) ==
    CASE t = "PRICE" -> "price"
      [] t = "Order" -> "order"
      [] OTHER -> t

Lower(s) == [k \in 1..Len(s) |-> LowerToken(s[k])]

\* sub in s, for strings cut into tokens
Contains(s, sub) ==
    \E k \in 0..(Len(s) - Len(sub)) :
        \A h \in 1..Len(sub) : s[k + h] = sub[h]

\* params['timeframe'] if params has the key, else the empty list
Timeframe(params) ==
    IF \E j \in 1..Len(params) : params[j][1] = "timeframe"
    THEN <<params[CHOOSE j \in 1..Len(params) :
                 params[j][1] = "timeframe"
                 /\ \A h \in (j + 1)..Len(params) : params[h][1] # "timeframe"][2]>>
    ELSE <<>>

\* CryptoCacheManager._detect_data_type
detect_data_type(endpoint, params) ==
    LET e == Lower(endpoint)
        Has(w) == Contains(e, <<w>>)
    IN IF \E j \in 1..Len(DATA_TYPE_VOLATILITY) : Contains(e, DATA_TYPE_VOLATILITY[j][1])
       THEN DATA_TYPE_VOLATILITY[CHOOSE j \in 1..Len(DATA_TYPE_VOLATILITY) :
                /\ Contains(e, DATA_TYPE_VOLATILITY[j][1])
                /\ \A h \in 1..(j - 1) : ~Contains(e, DATA_TYPE_VOLATILITY[h][1])][1]
       ELSE IF Has("order") /\ Has("book") THEN <<"order", "_", "book">>
       ELSE IF Has("ohlcv") \/ Has("candle")
            THEN (IF Timeframe(params) # <<>>
                  THEN <<"ohlcv", "_">> \o Timeframe(params)
                  ELSE <<"ohlcv", "_", "1h">>)
       ELSE IF Has("price") THEN <<"price", "_", "data">>
       ELSE IF Has("whale") THEN <<"whale", "_", "movements">>
       ELSE IF Has("exchange") /\ Has("flow") THEN <<"exchange", "_", "flow", "s">>
       ELSE IF Has("active") /\ Has("address") THEN <<"active", "_", "address", "es">>
       ELSE IF Has("hash") /\ Has("rate") THEN <<"hash", "_", "rate">>
       ELSE IF Has("network") THEN <<"network", "_", "metrics">>
       ELSE <<"medium_volatility_default">>

SECONDS_PER_HOUR == 3600
HOURS_PER_DAY == 24
MARKET_OPEN_HOUR == 6
MARKET_CLOSE_HOUR == 22

\* datetime.utcnow().hour, the clock counting seconds
HourOf(now) == (now \div SECONDS_PER_HOUR) % HOURS_PER_DAY

\* CryptoCacheManager._is_market_hours / _is_high_volatility_period
is_market_hours(now) ==
    MARKET_OPEN_HOUR <= HourOf(now) /\ HourOf(now) <= MARKET_CLOSE_HOUR

is_high_volatility_period(now) == HourOf(now) \in {6, 7, 20, 21}

\* the TTL that set / set_batch use: the caller's, or the smart TTL if the
\* caller passed None (<<>>)
ResolvedTTL(endpoint, params, ttl, now) ==
    IF ttl = <<>>
    THEN get_ttl(detect_data_type(endpoint, params), is_market_hours(now),
                 is_high_volatility_period(now))
    ELSE ttl[1]

----------------------------------------------------------------------------
(* CryptoCacheManager: keys, batch read, batch write *)

\* a params dict is the list of its (key, value) items in insertion order;
\* AsMap is the mapping it denotes, which is what sorted(params.items()) fixes
AsMap(params) ==
    [k \in {params[j][1] : j \in 1..Len(params)} |->
        params[CHOOSE j \in 1..Len(params) :
            params[j][1] = k /\ \A h \in (j + 1)..Len(params) : params[h][1] # k][2]]

\* _generate_cache_key: f"crypto_cache:{endpoint}:{md5(endpoint:sorted items)}"
generate_cache_key(endpoint, params) == <<"crypto_cache", endpoint, AsMap(params)>>

\* f"{endpoint}:{hash(str(params))}": str(params) keeps the insertion order
BatchCacheId(endpoint, params) == <<endpoint, params>>

\* the JSON document set / set_batch store under a key with setex, and the
\* instant at which Redis drops the key
CacheEntry(endpoint, data, params, ttl) ==
    [data |-> JsonRoundTrip(data), endpoint |-> endpoint, params |-> params,
     cached_at |-> clock, data_type |-> detect_data_type(endpoint, params),
     ttl_used |-> ResolvedTTL(endpoint, params, ttl, clock),
     expires_at |-> clock + ResolvedTTL(endpoint, params, ttl, clock)]

\* None where an entry is expected (a miss)
NoEntry == [data |-> None, endpoint |-> <<>>, params |-> <<>>]

\* CryptoCacheManager.get_batch: request id -> stored entry, or None on a miss
cache_get_batch(enabled, st, cache_requests) ==
    IF ~enabled \/ ~redis_up THEN EmptyMap
    ELSE LET KeyOf(j) == generate_cache_key(cache_requests[j][1], cache_requests[j][2])
             \* key_to_request[cache_key]: the last request that has this key
             Named(j) == CHOOSE h \in 1..Len(cache_requests) :
                            /\ KeyOf(h) = KeyOf(j)
                            /\ \A g \in (h + 1)..Len(cache_requests) : KeyOf(g) # KeyOf(j)
         IN [id \in {BatchCacheId(cache_requests[Named(j)][1], cache_requests[Named(j)][2]) :
                        j \in 1..Len(cache_requests)} |->
                LET key == generate_cache_key(id[1], id[2])
                IN IF key \in DOMAIN st THEN st[key] ELSE NoEntry]

\* CryptoCacheManager.set_batch: items are (endpoint, data, params, ttl); the
\* pipeline's setex calls overwrite in order
RECURSIVE cache_set_batch(_, _, _)
cache_set_batch(enabled, st, items) ==
    IF ~enabled \/ ~redis_up \/ items = <<>> THEN st
    ELSE LET it == Head(items)
         IN cache_set_batch(enabled,
                Put(st, generate_cache_key(it[1], it[3]),
                    CacheEntry(it[1], it[2], it[3], it[4])),
                Tail(items))

----------------------------------------------------------------------------
(* BatchOptimizer *)

\* f"metric_{metric}"
MetricEndpoint(metric) == <<"metric_">> \o metric

\* {"asset": asset, "metric": metric}
MetricParams(metric, asset) == << <<"asset", asset>>, <<"metric", metric>> >>

optimize_cache_keys(requests) ==
    [j \in 1..Len(requests) |->
        <<MetricEndpoint(requests[j][1]), MetricParams(requests[j][1], requests[j][2])>>]

\* faulty variant: every request is passed on, repeated or not
detect_redundant_requests_keep_all(requests, seen) == requests

\* the unique requests: the first request of each request key f"{metric}:{asset}"
RECURSIVE detect_redundant_requests(_, _)
detect_redundant_requests(requests, seen) ==
    IF requests = <<>> THEN <<>>
    ELSE LET request_key == RequestId(Head(requests)[1], Head(requests)[2])
         IN IF request_key \notin seen
            THEN <<Head(requests)>>
                 \o detect_redundant_requests(Tail(requests), seen \cup {request_key})
            ELSE detect_redundant_requests(Tail(requests), seen)

\* faulty variant: every request opens a group of its own
AddToGroup_group_per_request(groups, name, request) ==
    Append(groups, [name |-> name, requests |-> <<request>>])

\* provider_groups[name].append(request), keeping the dict's insertion order
AddToGroup(groups, name, request) ==
    IF \E g \in 1..Len(groups) : groups[g].name = name
    THEN [g \in 1..Len(groups) |->
             IF groups[g].name = name
             THEN [groups[g] EXCEPT !.requests = Append(@, request)]
             ELSE groups[g]]
    ELSE Append(groups, [name |-> name, requests |-> <<request>>])

\* faulty variant: the best provider is the first registered one that can
\* provide the metric
RECURSIVE group_by_provider_first_registered(_, _, _)
group_by_provider_first_registered(requests, provs, groups) ==
    IF requests = <<>> THEN groups
    ELSE LET metric == Head(requests)[1]
             avail == AvailableFrom(provs, metric, 1)
         IN IF avail # <<>>
            THEN group_by_provider_first_registered(Tail(requests), provs,
                     AddToGroup(groups, provs[avail[1]].name, Head(requests)))
            ELSE group_by_provider_first_registered(Tail(requests), provs, groups)
RECURSIVE group_by_provider(_, _, _)
group_by_provider(requests, provs, groups) ==
    IF requests = <<>> THEN groups
    ELSE LET metric == Head(requests)[1]
             avail == available_providers(provs, metric)
         IN IF avail # <<>>
            THEN group_by_provider(Tail(requests), provs,
                     AddToGroup(groups, provs[avail[1]].name, Head(requests)))
            ELSE group_by_provider(Tail(requests), provs, groups)

----------------------------------------------------------------------------
(* MetricRegistry.get_metrics_batch *)

\* faulty variant: a loader that returns None is counted as a failure
BatchBody_none_fails(p, outcome, metric, asset) ==
    IF outcome = "raise" \/ Returned(outcome, p.name, metric, asset) = None
    THEN [provider |-> record_failure(p), value |-> None]
    ELSE [provider |-> record_success(p),
          value |-> Returned(outcome, p.name, metric, asset)]
\* one iteration of _execute_provider_batch: the try / except around the loader call
BatchBody(p, outcome, metric, asset) ==
    IF outcome = "raise"
    THEN [provider |-> record_failure(p), value |-> None]
    ELSE LET result == Returned(outcome, p.name, metric, asset)
         IN IF result # None
            THEN [provider |-> record_success(p), value |-> result]
            ELSE [provider |-> p, value |-> None]

\* _execute_provider_batch on the i-th provider; oc[request] is what the loader does
RECURSIVE execute_provider_batch(_, _, _, _, _, _)
execute_provider_batch(provs, i, requests, oc, results, calls) ==
    IF requests = <<>> THEN [providers |-> provs, results |-> results, calls |-> calls]
    ELSE LET metric == Head(requests)[1]
             asset == Head(requests)[2]
             step == BatchBody(provs[i], oc[Head(requests)], metric, asset)
         IN execute_provider_batch([provs EXCEPT ![i] = step.provider], i, Tail(requests), oc,
                Put(results, RequestId(metric, asset), step.value),
                Append(calls, Call(provs, i, metric, asset, oc[Head(requests)])))

\* next((p for p in self.providers if p.name == provider_name), None)
ProviderByName(provs, name) ==
    IF \E i \in 1..Len(provs) : provs[i].name = name
    THEN CHOOSE i \in 1..Len(provs) :
             provs[i].name = name /\ \A h \in 1..(i - 1) : provs[h].name # name
    ELSE 0

\* _execute_provider_batches: one task per group; order lists the groups as
\* their tasks complete, which is the order results.update merges them
RECURSIVE execute_provider_batches(_, _, _, _, _, _)
execute_provider_batches(provs, groups, order, oc, results, calls) ==
    IF order = <<>> THEN [providers |-> provs, results |-> results, calls |-> calls]
    ELSE LET g == groups[Head(order)]
             i == ProviderByName(provs, g.name)
         IN IF i = 0
            THEN execute_provider_batches(provs, groups, Tail(order), oc, results, calls)
            ELSE LET r == execute_provider_batch(provs, i, g.requests, oc, EmptyMap, calls)
                 IN execute_provider_batches(r.providers, groups, Tail(order), oc,
                        Update(results, r.results), r.calls)

\* step 1: the requests found in the cache, as request id -> cached data
RECURSIVE CacheHits(_, _, _)
CacheHits(requests, cached_results, results) ==
    IF requests = <<>> THEN results
    ELSE LET metric == Head(requests)[1]
             asset == Head(requests)[2]
             cache_key == BatchCacheId(MetricEndpoint(metric), MetricParams(metric, asset))
         IN IF cache_key \in DOMAIN cached_results /\ cached_results[cache_key] # NoEntry
            THEN CacheHits(Tail(requests), cached_results,
                     Put(results, RequestId(metric, asset), cached_results[cache_key].data))
            ELSE CacheHits(Tail(requests), cached_results, results)

\* step 1: the requests not found in the cache
CacheMisses(requests, cached_results) ==
    SelectSeq(requests,
        LAMBDA rq :
            LET cache_key == BatchCacheId(MetricEndpoint(rq[1]), MetricParams(rq[1], rq[2]))
            IN ~(cache_key \in DOMAIN cached_results /\ cached_results[cache_key] # NoEntry))

\* step 4: metric, asset = request_id.split(':') raises ValueError unless
\* there are exactly two parts
SplitRaises(fresh_results) ==
    \E id \in DOMAIN fresh_results :
        fresh_results[id] # None /\ Len(Split(id)) # 2

\* step 4: the items handed to set_batch
CacheItems(fresh_results) ==
    LET ids == {id \in DOMAIN fresh_results : fresh_results[id] # None}
        Item(id) == <<MetricEndpoint(Split(id)[1]), fresh_results[id],
                      MetricParams(Split(id)[1], Split(id)[2]), <<>> >>
        RECURSIVE AsSeq(_)
        AsSeq(S) == IF S = {} THEN <<>>
                    ELSE LET x == CHOOSE y \in S : TRUE
                         IN <<Item(x)>> \o AsSeq(S \ {x})
    IN AsSeq(ids)

\* faulty variant: fresh results are written whatever use_cache says
caches_fresh_always(use_cache, fresh_results) == fresh_results # EmptyMap

\* step 4: `if use_cache and fresh_results`
caches_fresh(use_cache, fresh_results) == use_cache /\ fresh_results # EmptyMap

\* the unique requests the call would execute, given the cache's state
BatchUnique(enabled, st, requests, use_cache) ==
    LET remaining == IF use_cache
                     THEN CacheMisses(requests,
                              cache_get_batch(enabled, st, optimize_cache_keys(requests)))
                     ELSE requests
    IN detect_redundant_requests(remaining, {})

BatchGroups(provs, enabled, st, requests, use_cache) ==
    group_by_provider(BatchUnique(enabled, st, requests, use_cache), provs, <<>>)

\* the sum of len(provider_results) over the tasks of the groups
RECURSIVE BatchProcessed(_)
BatchProcessed(groups) ==
    IF groups = <<>> THEN 0
    ELSE Cardinality({RequestId(Head(groups).requests[k][1], Head(groups).requests[k][2]) :
                         k \in 1..Len(Head(groups).requests)})
         + BatchProcessed(Tail(groups))

get_metrics_batch(provs, enabled, st, requests, use_cache, oc, order) ==
    IF requests = <<>>
    THEN [providers |-> provs, store |-> st, results |-> EmptyMap, calls |-> <<>>,
          raised |-> FALSE, cache_hits |-> 0, saved_calls |-> 0,
          fresh |-> EmptyMap, processed |-> 0]
    ELSE LET cached_results ==
                 IF use_cache
                 THEN cache_get_batch(enabled, st, optimize_cache_keys(requests))
                 ELSE EmptyMap
             hits == IF use_cache THEN CacheHits(requests, cached_results, EmptyMap)
                     ELSE EmptyMap
             remaining == IF use_cache THEN CacheMisses(requests, cached_results)
                          ELSE requests
             unique_requests == detect_redundant_requests(remaining, {})
             provider_groups == group_by_provider(unique_requests, provs, <<>>)
             fresh == execute_provider_batches(provs, provider_groups, order, oc,
                                               EmptyMap, <<>>)
             n_hits == Len(requests) - Len(remaining)
         IN IF remaining = <<>>
            THEN [providers |-> provs, store |-> st, results |-> hits, calls |-> <<>>,
                  raised |-> FALSE, cache_hits |-> n_hits, saved_calls |-> n_hits,
                  fresh |-> EmptyMap, processed |-> 0]
            ELSE IF caches_fresh(use_cache, fresh.results) /\ SplitRaises(fresh.results)
                 THEN [providers |-> fresh.providers, store |-> st, results |-> EmptyMap,
                       calls |-> fresh.calls, raised |-> TRUE, cache_hits |-> n_hits,
                       saved_calls |-> 0, fresh |-> fresh.results,
                       processed |-> BatchProcessed(provider_groups)]
                 ELSE [providers |-> fresh.providers,
                       store |-> IF caches_fresh(use_cache, fresh.results)
                                 THEN cache_set_batch(enabled, st, CacheItems(fresh.results))
                                 ELSE st,
                       results |-> Update(hits, fresh.results), calls |-> fresh.calls,
                       raised |-> FALSE, cache_hits |-> n_hits, saved_calls |-> n_hits,
                       fresh |-> fresh.results,
                       processed |-> BatchProcessed(provider_groups)]

----------------------------------------------------------------------------
(* CryptoCacheManager.get / set / warm_cache and MetricRegistry.warm_critical_metrics *)

\* faulty variant: the entry is served without asking Redis
cache_get_stale(enabled, st, endpoint, params) ==
    IF enabled /\ generate_cache_key(endpoint, params) \in DOMAIN st
    THEN st[generate_cache_key(endpoint, params)]
    ELSE NoEntry
\* CryptoCacheManager.get: the stored entry, or None
cache_get(enabled, st, endpoint, params) ==
    IF enabled /\ redis_up /\ generate_cache_key(endpoint, params) \in DOMAIN st
    THEN st[generate_cache_key(endpoint, params)]
    ELSE NoEntry

\* CryptoCacheManager.set: the store afterwards
cache_set(enabled, st, endpoint, data, params, ttl) ==
    IF enabled /\ redis_up
    THEN Put(st, generate_cache_key(endpoint, params),
             CacheEntry(endpoint, data, params, ttl))
    ELSE st

----------------------------------------------------------------------------
(* CryptoCacheManager: invalidation, and the operations as callers see them *)

\* an optional argument: <<>> is None, <<x>> is the value x; Python's truth
\* test of an optional list and of an optional int
TruthyList(opt) == opt # <<>> /\ opt[1] # <<>>
TruthyInt(opt) == opt # <<>> /\ opt[1] # 0

\* the keys redis_client.keys("crypto_cache:*") lists
ManagedKeys(st) == {k \in DOMAIN st : k[1] = "crypto_cache"}

SECONDS_PER_MINUTE == 60

\* smart_invalidate: should_delete for the entry e read at the instant now
should_delete(e, patterns, data_types, older_than_minutes, now) ==
    \/ /\ TruthyList(data_types)
       /\ \E j \in 1..Len(data_types[1]) : data_types[1][j] = e.data_type
    \/ /\ TruthyInt(older_than_minutes)
       /\ now - e.cached_at > older_than_minutes[1] * SECONDS_PER_MINUTE
    \/ /\ TruthyList(patterns)
       /\ \E j \in 1..Len(patterns[1]) : Contains(e.endpoint, patterns[1][j])
    \/ ~TruthyList(data_types) /\ ~TruthyInt(older_than_minutes) /\ ~TruthyList(patterns)

\* smart_invalidate: keys_to_delete
keys_to_delete(enabled, st, patterns, data_types, older_than_minutes) ==
    IF enabled /\ redis_up
    THEN {k \in ManagedKeys(st) :
             should_delete(st[k], patterns, data_types, older_than_minutes, clock)}
    ELSE {}

\* redis_client.delete(*keys)
Delete(st, keys) == [k \in (DOMAIN st) \ keys |-> st[k]]

\* faulty variant: the pattern is matched against the whole key space
invalidate_pattern_keys_any_prefix(enabled, st, pattern) ==
    IF enabled /\ redis_up THEN DOMAIN st ELSE {}

\* invalidate_pattern: the keys matching f"crypto_cache:{pattern}*"
invalidate_pattern_keys(enabled, st, pattern) ==
    IF enabled /\ redis_up
    THEN {k \in ManagedKeys(st) :
             LET rest == k[2] \o <<COLON>>
             IN /\ Len(pattern) <= Len(rest)
                /\ \A h \in 1..Len(pattern) : rest[h] = pattern[h]}
    ELSE {}

\* Redis drops the keys whose expiry has passed by the instant now
Unexpired(st, now) ==
    [k \in {x \in DOMAIN st : "expires_at" \in DOMAIN st[x] => st[x].expires_at > now}
        |-> st[k]]

\* a key another application keeps in the same Redis database
FOREIGN_KEY == <<"session", <<"user">>, EmptyMap>>
ForeignEntry == [data |-> <<"foreign">>, endpoint |-> <<>>, params |-> <<>>]

----------------------------------------------------------------------------
(* Observation of a call *)

\* op: the operation called; before, cache: the provider list and the cache
\* contents when the call started;
\* calls: the loader invocations it made, in order; raised: an exception
\* reached the caller; result / results: what it returned
NoCall ==
    [op |-> "none", metric |-> <<>>, asset |-> <<>>, requests |-> <<>>,
     use_cache |-> FALSE, target |-> 0, args |-> <<>>, before |-> <<>>,
     cache |-> EmptyMap,
     raised |-> FALSE,
     result |-> None, results |-> EmptyMap, calls |-> <<>>]

\* no batch call is in progress
NoExec == [phase |-> "idle"]

\* the counters are not followed: no handler reads them, and a specification
\* that does not observe them leaves them out of its state
NoStats == [tracked |-> FALSE]

\* cache_stats and batch_stats after construction; average_batch_size is the
\* exact quotient num / den; get_calls, batch_calls and batch_lengths count
\* what the callers did: the calls of get, the calls of get_metrics_batch and
\* the sum of the lengths of their request lists
ZeroStats ==
    [tracked |-> TRUE,
     hits |-> 0, misses |-> 0, sets |-> 0, batch_requests |-> 0, batch_hits |-> 0,
     total_batch_requests |-> 0, average_batch_size |-> [num |-> 0, den |-> 1],
     cache_hits_in_batch |-> 0, provider_calls_saved |-> 0, concurrent_requests |-> 0,
     get_calls |-> 0, batch_calls |-> 0, batch_lengths |-> 0]

\* stats[field] += n
Count(s, field, n) == IF s.tracked THEN [s EXCEPT ![field] = @ + n] ELSE s

\* CryptoCacheManager.get: no counter moves when the cache is disabled; a hit
\* counts as a hit, everything else, a failed read included, as a miss
get_stats(s, enabled, entry) ==
    LET called == Count(s, "get_calls", 1)
    IN IF ~enabled THEN called
       ELSE IF entry # NoEntry THEN Count(called, "hits", 1)
       ELSE Count(called, "misses", 1)

\* CryptoCacheManager.set: cache_stats['sets'] += 1 after setex
set_stats(s, enabled) == IF enabled /\ redis_up THEN Count(s, "sets", 1) ELSE s

\* CryptoCacheManager.get_batch: batch_requests, and batch_hits per key of
\* the list that mget answers with a value
get_batch_stats(s, enabled, st, cache_requests) ==
    IF ~enabled THEN s
    ELSE LET found == {j \in 1..Len(cache_requests) :
                          generate_cache_key(cache_requests[j][1], cache_requests[j][2])
                              \in DOMAIN st}
         IN Count(Count(s, "batch_requests", 1), "batch_hits",
                  IF redis_up THEN Cardinality(found) ELSE 0)

\* CryptoCacheManager.set_batch: cache_stats['sets'] += successful_sets
set_batch_stats(s, enabled, items) ==
    IF enabled /\ redis_up THEN Count(s, "sets", Len(items)) ELSE s

\* the number num / den, den > 0, in lowest terms
RECURSIVE GCD(_, _)
GCD(a, b) == IF b = 0 THEN a ELSE GCD(b, a % b)
Quotient(num, den) ==
    IF num = 0 THEN [num |-> 0, den |-> 1]
    ELSE [num |-> num \div GCD(num, den), den |-> den \div GCD(num, den)]

\* get_metrics_batch, after the test for an empty list: total_batch_requests
\* and the running mean (avg * (n - 1) + len(requests)) / n
batch_started_stats(s, requests) ==
    IF ~s.tracked THEN s
    ELSE LET n == s.total_batch_requests + 1
             avg == s.average_batch_size
         IN [s EXCEPT !.total_batch_requests = n,
                      !.average_batch_size =
                          Quotient(avg.num * (n - 1) + Len(requests) * avg.den,
                                   avg.den * n)]

\* get_metrics_batch, step 1: the cache's own counters and cache_hits_in_batch
batch_lookup_stats(s, enabled, st, requests, use_cache, n_hits) ==
    IF use_cache
    THEN Count(get_batch_stats(s, enabled, st, optimize_cache_keys(requests)),
               "cache_hits_in_batch", n_hits)
    ELSE s

\* _execute_provider_batches: concurrent_requests += len(provider_results),
\* for the results of one task
task_stats(s, provider_results) ==
    Count(s, "concurrent_requests", Cardinality(DOMAIN provider_results))

\* get_metrics_batch, step 4 and the return: set_batch's counter, unless the
\* split raised, and provider_calls_saved += saved_calls
batch_return_stats(s, enabled, use_cache, fresh_results, raised, saved_calls) ==
    IF raised THEN s
    ELSE Count(IF caches_fresh(use_cache, fresh_results)
               THEN set_batch_stats(s, enabled, CacheItems(fresh_results))
               ELSE s,
               "provider_calls_saved", saved_calls)

\* the counters after a whole get_metrics_batch call that returned r
batch_stats_after(s, enabled, st, requests, use_cache, r) ==
    LET called == Count(Count(s, "batch_calls", 1), "batch_lengths", Len(requests))
    IN IF requests = <<>> THEN called
       ELSE batch_return_stats(
                Count(batch_lookup_stats(batch_started_stats(called, requests),
                                         enabled, st, requests, use_cache, r.cache_hits),
                      "concurrent_requests", r.processed),
                enabled, use_cache, r.fresh, r.raised, r.saved_calls)

\* warming_requests = [(metric, asset) for asset in assets for metric in
\* critical_metrics]
RECURSIVE warming_requests_of(_, _)
warming_requests_of(assets, critical_metrics) ==
    IF assets = <<>> THEN <<>>
    ELSE [j \in 1..Len(critical_metrics) |-> <<critical_metrics[j], Head(assets)>>]
         \o warming_requests_of(Tail(assets), critical_metrics)

\* faulty variant: an entry found in the cache is fetched and written again
warm_needed_always(entry) == TRUE

\* warm_cache: `if cached_data is None`
warm_needed(entry) == entry = NoEntry

\* warm_cache over the (metric, asset) cross product, warm_function being
\* get_metric; ocs[j] is what the loaders do during the j-th request, w the
\* running record (providers, store, loader calls, warmed_count, counters)
RECURSIVE warm_critical_metrics(_, _, _, _)
warm_critical_metrics(enabled, warming_requests, ocs, w) ==
    IF ~enabled \/ warming_requests = <<>> THEN w
    ELSE LET metric == Head(warming_requests)[1]
             asset == Head(warming_requests)[2]
             endpoint == MetricEndpoint(metric)
             params == MetricParams(metric, asset)
             entry == cache_get(enabled, w.store, endpoint, params)
             looked == get_stats(w.stats, enabled, entry)
         IN IF ~warm_needed(entry)
            THEN warm_critical_metrics(enabled, Tail(warming_requests), Tail(ocs),
                                       [w EXCEPT !.stats = looked])
            ELSE LET r == get_metric(w.providers, metric, asset, Head(ocs))
                     written == r.result # None /\ enabled /\ redis_up
                 IN warm_critical_metrics(enabled, Tail(warming_requests), Tail(ocs),
                        [providers |-> r.providers,
                         store |-> IF r.result # None
                                   THEN cache_set(enabled, w.store, endpoint, r.result,
                                                  params, <<>>)
                                   ELSE w.store,
                         calls |-> w.calls \o r.calls,
                         warmed |-> IF written THEN w.warmed + 1 ELSE w.warmed,
                         stats |-> IF r.result # None THEN set_stats(looked, enabled)
                                   ELSE looked])

PERCENT == 100

\* get_optimization_stats: hit_ratio, the exact quotient num / den
hit_ratio(s) ==
    LET total_requests == s.hits + s.misses
    IN IF total_requests > 0
       THEN [num |-> s.hits * PERCENT, den |-> total_requests]
       ELSE [num |-> 0, den |-> 1]

\* no registry call is running statement by statement
NoThreads == <<>>

\* the wall clock at construction: noon, within market hours
NOON == 12 * SECONDS_PER_HOUR

FailuresCapped(provs) ==
    \A i \in 1..Len(provs) : provs[i].failure_count <= MaxFailures

----------------------------------------------------------------------------
(* The registry after construction, and what callers hand to it *)

\* _initialize_providers, with each provider's metric list cut to the metrics above
InitialProviders ==
    << DataProvider("Glassnode", 1, {PRICE}, TRUE),
       DataProvider("IntoTheBlock", 2, {PRICE}, TRUE),
       DataProvider("Dune", 3, {DEFI_TVL}, TRUE),
       DataProvider("MockProvider", 99, {PRICE}, FALSE) >>

\* the (metric, asset) pairs callers ask for
RequestPool ==
    { <<DEFI_TVL, ETH>>, <<DEFI_TVL, ETH_USD>>, <<DEFI_TVL_ETH, USD>> }

\* the request lists of at most n requests
RECURSIVE RequestLists(_)
RequestLists(n) ==
    IF n = 0 THEN {<<>>}
    ELSE RequestLists(n - 1)
         \cup {Append(l, rq) : l \in {x \in RequestLists(n - 1) : Len(x) = n - 1},
                               rq \in RequestPool}

\* what callers register with add_custom_provider
CustomNames == {"CustomProvider"}
\* 0 precedes every built-in provider, 3 ties with Dune
CustomPriorities == {0, 3}
BatchCustomPriorities == {3}
CustomMetrics == {{DEFI_TVL, DEFI_TVL_ETH}}

\* add_custom_provider takes any name, registered already or not
AnyCustomNames == CustomNames \cup {"Dune"}

\* the names not yet registered: Spec's callers give each custom provider a
\* name of its own
FreshNames(provs) ==
    CustomNames \ {provs[i].name : i \in 1..Len(provs)}

\* the providers whose health callers touch directly: those that serve the
\* metrics of RequestPool
HealthTargets(provs) ==
    {i \in 1..Len(provs) :
        \E rq \in RequestPool : rq[1] \in provs[i].available_metrics}

\* what callers hand to the cache manager
CacheEndpoints == { <<"order", "_", "book">>, <<"network", "_", "metrics">> }
CacheParams == << <<"asset", BTC>> >>
CacheValues == { LoaderValue("Glassnode", PRICE, BTC), EmptyDataFrame }

\* the lists of at most n elements of S
RECURSIVE ListsOf(_, _)
ListsOf(S, n) ==
    IF n = 0 THEN {<<>>}
    ELSE ListsOf(S, n - 1)
         \cup {Append(l, x) : l \in {y \in ListsOf(S, n - 1) : Len(y) = n - 1}, x \in S}

\* the lists of at most n distinct elements of the set S
DistinctLists(S, n) ==
    {l \in ListsOf(S, n) : \A a, b \in 1..Len(l) : a # b => l[a] # l[b]}

\* the assets and the critical metrics handed to warm_critical_metrics
WarmAssets == {BTC, ETH}
WarmMetrics == {PRICE, DEFI_TVL}
\* get_batch requests and set_batch items
CacheRequests == {<<e, CacheParams>> : e \in CacheEndpoints}
CacheDataItems == {<<e, v, CacheParams, <<>> >> : e \in CacheEndpoints, v \in CacheValues}

\* one parameter map written in its two orders, and the requests made of them
ASSET_FIRST == << <<"asset", BTC>>, <<"metric", PRICE>> >>
METRIC_FIRST == << <<"metric", PRICE>>, <<"asset", BTC>> >>
OrderedParams == {ASSET_FIRST, METRIC_FIRST}
OrderedRequests == {<<e, ps>> : e \in CacheEndpoints, ps \in OrderedParams}

\* the filters of smart_invalidate: not given, an empty list, a list
PatternFilters == { <<>>, << <<>> >>, << << <<"book">> >> >> }
DataTypeFilters == { <<>>, << <<>> >>, << << <<"network", "_", "metrics">> >> >> }
AgeFilters == { <<>>, <<0>>, <<1>> }

\* seconds between two looks at the clock
TICK == 30

\* the data-type tags handed to get_ttl: every mapped tag, the default tag of
\* _detect_data_type and a tag nobody mapped
UNMAPPED_TAG == <<"funding", "_", "rate">>
TTLTags ==
    {DATA_TYPE_VOLATILITY[j][1] : j \in 1..Len(DATA_TYPE_VOLATILITY)}
        \cup {<<"medium_volatility_default">>, UNMAPPED_TAG}

\* the requests of the step-by-step batch: "price" goes to Glassnode,
\* "defi_tvl" to Dune, "defi_tvl:ETH" to a custom provider
ThreadRequestPool ==
    { <<PRICE, BTC>>, <<DEFI_TVL, ETH>>, <<DEFI_TVL, BTC>>, <<DEFI_TVL_ETH, USD>> }

RECURSIVE ThreadRequestLists(_)
ThreadRequestLists(n) ==
    IF n = 0 THEN {<<>>}
    ELSE ThreadRequestLists(n - 1)
         \cup {Append(l, rq) : l \in {x \in ThreadRequestLists(n - 1) : Len(x) = n - 1},
                               rq \in ThreadRequestPool}

\* the lists of unique requests that get_metrics_batch hands to group_by_provider
UniqueRequestLists(n) ==
    {l \in ThreadRequestLists(n) : \A k, h \in 1..Len(l) : k # h => l[k] # l[h]}

\* the providers that serve the metrics of ThreadRequestPool
GroupTargets(provs) ==
    {i \in 1..Len(provs) :
        /\ \E rq \in ThreadRequestPool : rq[1] \in provs[i].available_metrics
        /\ provs[i].name # "MockProvider"}

\* the requests of the batch calls whose counters are followed
StatsRequestPool == { <<DEFI_TVL, ETH>> }

\* the batch requests and the loader behaviour of SpecRace: every call goes
\* to Glassnode first, and no loader returns data
RaceRequestLists == ListsOf({ <<PRICE, BTC>> }, MaxBatch) \ {<<>>}
FailingOutcomes == {"raise", "none"}

\* the requests of SpecJoin: two provider groups, Glassnode's and Dune's
JoinRequestPool == { <<PRICE, BTC>>, <<DEFI_TVL, ETH>> }

\* what a loader does in a batch call of Spec
BatchOutcomes == {"raise", "none", "data"}
\* loaders as SpecCache draws them: they answer, with data or with
\* None, and never raise
QuietOutcomes == {"none", "data"}

\* outcome lists for a fallback run over n providers: what follows the first
\* "data" is never invoked and is fixed to "data"
FallbackOutcomes(n, outcomes) ==
    {oc \in [1..n -> outcomes] :
        \A j \in 1..n : (\E h \in 1..(j - 1) : oc[h] = "data") => oc[j] = "data"}

\* the orders in which n group tasks may complete
CompletionOrders(n) ==
    {o \in [1..n -> 1..n] : \A a, b \in 1..n : a # b => o[a] # o[b]}

----------------------------------------------------------------------------
(* Actions: one per registry operation; Observe is the caller taking the    *)
(* return value, after which the next call may start                        *)

Idle == last.op = "none"

GetMetric(metric, asset, outcomes) ==
    /\ Idle
    /\ \E oc \in FallbackOutcomes(Len(available_providers(providers, metric)), outcomes) :
        LET r == get_metric(providers, metric, asset, oc)
        IN /\ FailuresCapped(r.providers)
           /\ providers' = r.providers
           /\ last' = [NoCall EXCEPT !.op = "get_metric", !.before = providers,
                                     !.metric = metric,
                                     !.asset = asset, !.raised = r.raised,
                                     !.result = r.result, !.calls = r.calls]
    /\ UNCHANGED <<cache_enabled, store, hist, clock, redis_up, exec, stats, threads>>

GetMetricsBatch(requests, use_cache, outcomes) ==
    /\ Idle
    /\ LET unique == BatchUnique(cache_enabled, store, requests, use_cache)
           groups == BatchGroups(providers, cache_enabled, store, requests, use_cache)
       IN \E oc \in [{unique[j] : j \in 1..Len(unique)} -> outcomes],
             order \in CompletionOrders(Len(groups)) :
            LET r == get_metrics_batch(providers, cache_enabled, store, requests,
                                       use_cache, oc, order)
            IN /\ FailuresCapped(r.providers)
               /\ providers' = r.providers
               /\ store' = r.store
               /\ last' = [NoCall EXCEPT !.op = "get_metrics_batch",
                                         !.before = providers, !.cache = store,
                                         !.requests = requests, !.use_cache = use_cache,
                                         !.args = <<oc, order>>,
                                         !.raised = r.raised, !.results = r.results,
                                         !.calls = r.calls]
               /\ stats' = batch_stats_after(stats, cache_enabled, store, requests,
                                              use_cache, r)
    /\ UNCHANGED <<cache_enabled, hist, clock, redis_up, exec, threads>>

\* warm_critical_metrics(assets=[asset], critical_metrics=[metric])
WarmCriticalMetrics(metric, asset, outcomes) ==
    /\ Idle
    /\ cache_enabled
    /\ \E oc \in FallbackOutcomes(Len(available_providers(providers, metric)), outcomes) :
        LET r == warm_critical_metrics(cache_enabled, << <<metric, asset>> >>, <<oc>>,
                     [providers |-> providers, store |-> store, calls |-> <<>>,
                      warmed |-> 0, stats |-> stats])
        IN /\ FailuresCapped(r.providers)
           /\ providers' = r.providers
           /\ store' = r.store
           /\ last' = [NoCall EXCEPT !.op = "warm_critical_metrics",
                                     !.before = providers, !.metric = metric,
                                     !.asset = asset, !.target = r.warmed,
                                     !.calls = r.calls]
           /\ stats' = r.stats
    /\ UNCHANGED <<cache_enabled, hist, clock, redis_up, exec, threads>>

\* what the loaders do during each request of a warming run: one fallback
\* outcome list per request, over the providers that can serve its metric
RECURSIVE WarmOutcomes(_, _, _)
WarmOutcomes(provs, requests, outcomes) ==
    IF requests = <<>> THEN {<<>>}
    ELSE {<<oc>> \o rest :
             oc \in FallbackOutcomes(Len(available_providers(provs, Head(requests)[1])),
                                     outcomes),
             rest \in WarmOutcomes(provs, Tail(requests), outcomes)}

\* warm_critical_metrics(assets, critical_metrics): the returned dict's
\* total_requests and successfully_warmed
WarmCriticalMetricsOver(assets, critical_metrics, outcomes) ==
    /\ Idle
    /\ LET requests == warming_requests_of(assets, critical_metrics)
       IN \E ocs \in WarmOutcomes(providers, requests, outcomes) :
           LET r == warm_critical_metrics(cache_enabled, requests, ocs,
                        [providers |-> providers, store |-> store, calls |-> <<>>,
                         warmed |-> 0, stats |-> stats])
           IN /\ FailuresCapped(r.providers)
              /\ providers' = r.providers
              /\ store' = r.store
              /\ last' = [NoCall EXCEPT !.op = "warm_critical_metrics",
                                        !.before = providers, !.cache = store,
                                        !.args = <<assets, critical_metrics>>,
                                        !.requests = requests,
                                        !.result = [total_requests |-> Len(requests),
                                                    successfully_warmed |-> r.warmed],
                                        !.target = r.warmed,
                                        !.calls = r.calls]
              /\ stats' = r.stats
    /\ UNCHANGED <<cache_enabled, hist, clock, redis_up, exec, threads>>
\* get_comprehensive_analysis: key_metrics, cut to the metrics above
KEY_METRICS == <<PRICE>>

\* batch_requests = [(metric, asset) for metric in key_metrics]
analysis_requests(asset) == [j \in 1..Len(KEY_METRICS) |-> <<KEY_METRICS[j], asset>>]

\* get_comprehensive_analysis, the loop over key_metrics: for a metric whose
\* batch result is not None, the first registered provider that has a
\* last_success and can provide the metric is added to successful_providers
successful_providers(provs, batch_results, asset) ==
    {provs[i].name :
        i \in {h \in 1..Len(provs) :
                 \E j \in 1..Len(KEY_METRICS) :
                    LET metric == KEY_METRICS[j]
                        request_id == RequestId(metric, asset)
                        Named(g) == provs[g].last_success # "None"
                                    /\ can_provide(provs[g], metric)
                    IN /\ request_id \in DOMAIN batch_results
                       /\ batch_results[request_id] # None
                       /\ Named(h)
                       /\ \A g \in 1..(h - 1) : ~Named(g)}}

\* get_comprehensive_analysis(asset): get_metrics_batch with its default
\* arguments, then data_sources
GetComprehensiveAnalysis(asset, outcomes) ==
    /\ Idle
    /\ LET requests == analysis_requests(asset)
           unique == BatchUnique(cache_enabled, store, requests, TRUE)
           groups == BatchGroups(providers, cache_enabled, store, requests, TRUE)
       IN \E oc \in [{unique[j] : j \in 1..Len(unique)} -> outcomes],
             order \in CompletionOrders(Len(groups)) :
            LET r == get_metrics_batch(providers, cache_enabled, store, requests,
                                       TRUE, oc, order)
            IN /\ FailuresCapped(r.providers)
               /\ providers' = r.providers
               /\ store' = r.store
               /\ last' = [NoCall EXCEPT
                      !.op = "get_comprehensive_analysis",
                      !.before = providers, !.cache = store, !.asset = asset,
                      !.requests = requests, !.use_cache = TRUE,
                      !.raised = r.raised, !.results = r.results, !.calls = r.calls,
                      !.result = [data_sources |->
                                     IF r.raised THEN {}
                                     ELSE successful_providers(r.providers, r.results,
                                                               asset)]]
               /\ stats' = batch_stats_after(stats, cache_enabled, store, requests,
                                              TRUE, r)
    /\ UNCHANGED <<cache_enabled, hist, clock, redis_up, exec, threads>>
\* the backend drops an entry ahead of the callers' next operation (its TTL
\* elapsed, or Redis evicted it)
CacheExpire(key) ==
    /\ Idle
    /\ key \in DOMAIN store
    /\ store' = [k \in (DOMAIN store) \ {key} |-> store[k]]
    /\ UNCHANGED <<providers, cache_enabled, last, hist, clock, redis_up, exec, stats, threads>>

\* provider.reset_health() on the i-th provider
ResetHealth(i) ==
    /\ Idle
    /\ providers' = [providers EXCEPT ![i] = reset_health(@)]
    /\ last' = [NoCall EXCEPT !.op = "reset_health", !.before = providers,
                                 !.target = i]
    /\ UNCHANGED <<cache_enabled, store, hist, clock, redis_up, exec, stats, threads>>

\* provider.record_success() / provider.record_failure(), the public methods
\* of DataProvider, called directly on the i-th provider
RecordSuccess(i) ==
    /\ Idle
    /\ providers' = [providers EXCEPT ![i] = record_success(@)]
    /\ last' = [NoCall EXCEPT !.op = "record_success", !.before = providers,
                                 !.target = i]
    /\ UNCHANGED <<cache_enabled, store, hist, clock, redis_up, exec, stats, threads>>

RecordFailure(i) ==
    /\ Idle
    /\ providers[i].failure_count < MaxFailures
    /\ providers' = [providers EXCEPT ![i] = record_failure(@)]
    /\ last' = [NoCall EXCEPT !.op = "record_failure", !.before = providers,
                                 !.target = i]
    /\ UNCHANGED <<cache_enabled, store, hist, clock, redis_up, exec, stats, threads>>

reset_all_providers(provs) == [i \in 1..Len(provs) |-> reset_health(provs[i])]

ResetAllProviders ==
    /\ Idle
    /\ providers' = reset_all_providers(providers)
    /\ last' = [NoCall EXCEPT !.op = "reset_all_providers", !.before = providers]
    /\ UNCHANGED <<cache_enabled, store, hist, clock, redis_up, exec, stats, threads>>

add_custom_provider(provs, name, priority, metrics, requires_api_key) ==
    Append(provs, DataProvider(name, priority, metrics, requires_api_key))

AddCustomProvider(name, priority, metrics) ==
    /\ Idle
    /\ Len(providers) < MaxProviders
    /\ providers' = add_custom_provider(providers, name, priority, metrics, FALSE)
    /\ last' = [NoCall EXCEPT !.op = "add_custom_provider", !.before = providers,
                                 !.target = Len(providers) + 1]
    /\ UNCHANGED <<cache_enabled, store, hist, clock, redis_up, exec, stats, threads>>

----------------------------------------------------------------------------
(* get_metrics_batch step by step: the ThreadPoolExecutor of                *)
(* _execute_provider_batches and the worker threads running                 *)
(* _execute_provider_batch                                                   *)

\* executor.submit for every group whose provider is found, in the order of
\* provider_groups.items()
RECURSIVE SubmitTasks(_, _)
SubmitTasks(provs, groups) ==
    IF groups = <<>> THEN <<>>
    ELSE LET i == ProviderByName(provs, Head(groups).name)
         IN (IF i = 0 THEN <<>>
             ELSE << [name |-> Head(groups).name, provider |-> i,
                      requests |-> Head(groups).requests, pos |-> 1,
                      status |-> "queued", invoking |-> FALSE,
                      results |-> EmptyMap] >>)
            \o SubmitTasks(provs, Tail(groups))

\* the tasks a worker thread is executing
RunningTasks(e) ==
    {t \in 1..Len(e.tasks) : e.tasks[t].status = "running"}

\* faulty variant: a thread is started for every submitted task
WorkerAvailable_unbounded(e) == TRUE

\* ThreadPoolExecutor(max_workers=max_concurrent): a queued work item is taken
\* only by one of at most max_workers worker threads
WorkerAvailable(e) == Cardinality(RunningTasks(e)) < e.max_workers

\* get_metrics_batch up to the grouping (steps 1 and 2) and the construction
\* of the executor
BatchSubmit(requests, use_cache, max_concurrent) ==
    /\ Idle
    /\ exec.phase = "idle"
    /\ LET cached_results ==
               IF use_cache
               THEN cache_get_batch(cache_enabled, store, optimize_cache_keys(requests))
               ELSE EmptyMap
           hits == IF use_cache THEN CacheHits(requests, cached_results, EmptyMap)
                   ELSE EmptyMap
           remaining == IF use_cache THEN CacheMisses(requests, cached_results)
                        ELSE requests
           unique_requests == detect_redundant_requests(remaining, {})
           provider_groups == group_by_provider(unique_requests, providers, <<>>)
           returned == [NoCall EXCEPT !.op = "get_metrics_batch",
                                      !.before = providers, !.cache = store,
                                      !.requests = requests, !.use_cache = use_cache,
                                      !.args = <<max_concurrent, 0>>]
           called == Count(Count(stats, "batch_calls", 1), "batch_lengths", Len(requests))
           looked == batch_lookup_stats(batch_started_stats(called, requests),
                         cache_enabled, store, requests, use_cache,
                         Len(requests) - Len(remaining))
       IN IF requests = <<>> \/ remaining = <<>>
          THEN /\ last' = [returned EXCEPT !.results = hits]
               /\ stats' = IF requests = <<>> THEN called
                            ELSE batch_return_stats(looked, cache_enabled, use_cache,
                                     EmptyMap, FALSE, Len(requests) - Len(remaining))
               /\ UNCHANGED exec
          ELSE IF max_concurrent <= 0
               \* ThreadPoolExecutor raises ValueError
               THEN /\ last' = [returned EXCEPT !.raised = TRUE]
                    /\ stats' = looked
                    /\ UNCHANGED exec
               ELSE /\ last' = last
                    /\ stats' = looked
                    /\ exec' = [phase |-> "grouped", requests |-> requests,
                                use_cache |-> use_cache, before |-> providers,
                                cache |-> store, max_workers |-> max_concurrent,
                                hits |-> hits, remaining |-> remaining,
                                unique |-> unique_requests,
                                groups |-> provider_groups, tasks |-> <<>>,
                                results |-> EmptyMap, calls |-> <<>>,
                                peak |-> 0]
    /\ UNCHANGED <<providers, cache_enabled, store, hist, clock, redis_up, threads>>

\* _execute_provider_batches looks every group's provider up by name in
\* self.providers, as the list is now, and submits the group tasks
ExecutorSubmit ==
    /\ exec.phase = "grouped"
    /\ exec' = [exec EXCEPT !.phase = "running",
                            !.tasks = SubmitTasks(providers, exec.groups)]
    /\ UNCHANGED <<providers, cache_enabled, store, last, hist, clock, redis_up, stats, threads>>

\* a worker thread takes the oldest queued work item
TaskStart(t) ==
    /\ exec.phase = "running"
    /\ t \in 1..Len(exec.tasks)
    /\ exec.tasks[t].status = "queued"
    /\ \A h \in 1..(t - 1) : exec.tasks[h].status # "queued"
    /\ WorkerAvailable(exec)
    /\ exec' = [exec EXCEPT !.tasks[t].status = "running",
                            !.peak = IF Cardinality(RunningTasks(exec)) + 1 > @
                                     THEN Cardinality(RunningTasks(exec)) + 1 ELSE @]
    /\ UNCHANGED <<providers, cache_enabled, store, last, hist, clock, redis_up, stats, threads>>

\* the task's thread calls provider.loader_func(metric, asset)
LoaderEnter(t) ==
    /\ exec.phase = "running"
    /\ t \in 1..Len(exec.tasks)
    /\ exec.tasks[t].status = "running"
    /\ ~exec.tasks[t].invoking
    /\ exec.tasks[t].pos <= Len(exec.tasks[t].requests)
    /\ exec' = [exec EXCEPT !.tasks[t].invoking = TRUE]
    /\ UNCHANGED <<providers, cache_enabled, store, last, hist, clock, redis_up, stats, threads>>

\* the loader returns or raises; the thread records the outcome on the
\* provider and in the task's results
LoaderReturn(t, outcome) ==
    /\ exec.phase = "running"
    /\ t \in 1..Len(exec.tasks)
    /\ exec.tasks[t].invoking
    /\ LET task == exec.tasks[t]
           i == task.provider
           metric == task.requests[task.pos][1]
           asset == task.requests[task.pos][2]
           step == BatchBody(providers[i], outcome, metric, asset)
       IN /\ step.provider.failure_count <= MaxFailures
          /\ providers' = [providers EXCEPT ![i] = step.provider]
          /\ exec' = [exec EXCEPT
                         !.tasks[t].invoking = FALSE,
                         !.tasks[t].pos = @ + 1,
                         !.tasks[t].results = Put(@, RequestId(metric, asset), step.value),
                         !.calls = Append(@, Call(providers, i, metric, asset, outcome)
                                                 @@ [task |-> t])]
    /\ UNCHANGED <<cache_enabled, store, last, hist, clock, redis_up, stats, threads>>

\* the task returns its results; as_completed hands them to the calling
\* thread, which merges them with results.update
TaskFinish(t) ==
    /\ exec.phase = "running"
    /\ t \in 1..Len(exec.tasks)
    /\ exec.tasks[t].status = "running"
    /\ ~exec.tasks[t].invoking
    /\ exec.tasks[t].pos > Len(exec.tasks[t].requests)
    /\ exec' = [exec EXCEPT !.tasks[t].status = "done",
                            !.results = Update(@, exec.tasks[t].results)]
    /\ stats' = task_stats(stats, exec.tasks[t].results)
    /\ UNCHANGED <<providers, cache_enabled, store, last, hist, clock, redis_up, threads>>

\* an exception leaves _execute_provider_batch: the future holds it, and
\* future.result() raises it in the calling thread, which logs it and goes
\* on to the next completed future (lines 297-303)
TaskRaises(t) ==
    /\ exec.phase = "running"
    /\ t \in 1..Len(exec.tasks)
    /\ exec.tasks[t].status = "running"
    /\ ~exec.tasks[t].invoking
    /\ exec' = [exec EXCEPT !.tasks[t].status = "failed"]
    /\ UNCHANGED <<providers, cache_enabled, store, last, hist, clock, redis_up, stats, threads>>

\* faulty variant: the collection loop ends with the first completed future
AllCompleted_first(e) ==
    \E t \in 1..Len(e.tasks) : e.tasks[t].status \in {"done", "failed"}

\* as_completed has yielded every future, and the executor's shutdown has
\* joined every worker thread
AllCompleted(e) ==
    \A t \in 1..Len(e.tasks) : e.tasks[t].status \in {"done", "failed"}

\* every future has completed: the executor shuts down, and get_metrics_batch
\* caches the fresh results (step 4), merges them with the hits and returns
BatchReturn ==
    /\ exec.phase = "running"
    /\ AllCompleted(exec)
    /\ LET fresh == exec.results
           raises == caches_fresh(exec.use_cache, fresh) /\ SplitRaises(fresh)
           returned == [NoCall EXCEPT !.op = "get_metrics_batch",
                                      !.before = exec.before, !.cache = exec.cache,
                                      !.requests = exec.requests,
                                      !.use_cache = exec.use_cache,
                                      !.args = <<exec.max_workers, exec.peak>>,
                                      !.calls = exec.calls]
       IN /\ store' = IF caches_fresh(exec.use_cache, fresh) /\ ~raises
                      THEN cache_set_batch(cache_enabled, store, CacheItems(fresh))
                      ELSE store
          /\ last' = IF raises THEN [returned EXCEPT !.raised = TRUE]
                     ELSE [returned EXCEPT !.results = Update(exec.hits, fresh)]
          /\ stats' = batch_return_stats(stats, cache_enabled, exec.use_cache, fresh,
                           raises, Len(exec.requests) - Len(exec.remaining))
    /\ exec' = NoExec
    /\ UNCHANGED <<providers, cache_enabled, hist, clock, redis_up, threads>>

\* Scenario: a registry holding A (priority 1) and B (priority 2), both
\* advertising "price"; A's loader raises on its first three invocations and
\* succeeds afterwards, B's loader succeeds
ScenarioProviders ==
    << DataProvider("A", 1, {PRICE}, FALSE), DataProvider("B", 2, {PRICE}, FALSE) >>

ScenarioAssets == {BTC, ETH, SOL}

\* how many times the loader of the provider called name has been invoked in
\* the calls logged in h
RECURSIVE LoaderInvocations(_, _)
LoaderInvocations(h, name) ==
    IF h = <<>> THEN 0
    ELSE Cardinality({k \in 1..Len(Head(h).invoked) : Head(h).invoked[k] = name})
         + LoaderInvocations(Tail(h), name)

\* what the scenario's loaders do, listed in the fallback order avail
ScenarioOutcomes(provs, avail, h) ==
    [k \in 1..Len(avail) |->
        IF provs[avail[k]].name = "A" /\ LoaderInvocations(h, "A") < HEALTH_THRESHOLD
        THEN "raise"
        ELSE "data"]

\* get_metric("price", asset) in the scenario
ScenarioGetMetric(asset) ==
    /\ Idle
    /\ Len(hist) < MaxCalls
    /\ LET avail == available_providers(providers, PRICE)
           r == get_metric(providers, PRICE, asset,
                           ScenarioOutcomes(providers, avail, hist))
       IN /\ providers' = r.providers
          /\ last' = [NoCall EXCEPT !.op = "get_metric", !.before = providers,
                                    !.metric = PRICE, !.asset = asset,
                                    !.raised = r.raised, !.result = r.result,
                                    !.calls = r.calls]
          /\ hist' = Append(hist,
                 [asset |-> asset, result |-> r.result,
                  invoked |-> [k \in 1..Len(r.calls) |->
                                  providers[r.calls[k].provider].name],
                  unhealthy |-> {r.providers[i].name : i \in
                                  {j \in 1..Len(r.providers) :
                                      ~r.providers[j].is_healthy}}])
    /\ UNCHANGED <<cache_enabled, store, clock, redis_up, exec, stats, threads>>

\* ttl_strategy.get_ttl(data_type, market_hours, high_volatility_period)
GetTTL(data_type, market_hours, high_volatility_period) ==
    /\ Idle
    /\ last' = [NoCall EXCEPT
                   !.op = "get_ttl",
                   !.args = <<data_type, market_hours, high_volatility_period>>,
                   !.result = get_ttl(data_type, market_hours, high_volatility_period)]
    /\ UNCHANGED <<providers, cache_enabled, store, hist, clock, redis_up, exec, stats, threads>>

\* get_ttl for two data types under the same pair of flags
GetTTLPair(data_type, other_type, market_hours, high_volatility_period) ==
    /\ Idle
    /\ last' = [NoCall EXCEPT
                   !.op = "get_ttl_pair",
                   !.args = <<data_type, other_type, market_hours, high_volatility_period>>,
                   !.result = <<get_ttl(data_type, market_hours, high_volatility_period),
                                get_ttl(other_type, market_hours, high_volatility_period)>>]
    /\ UNCHANGED <<providers, cache_enabled, store, hist, clock, redis_up, exec, stats, threads>>

\* The cache operations record in last.target whether Redis answered the call
\* (1) or not (0), and in last.cache the keys Redis held when it was made.

\* cache.get(endpoint, params)
CacheGet(endpoint, params) ==
    /\ Idle
    /\ last' = [NoCall EXCEPT !.op = "get", !.args = <<endpoint, params, clock>>,
                              !.cache = store,
                              !.target = IF redis_up THEN 1 ELSE 0,
                              !.result = cache_get(cache_enabled, store, endpoint, params)]
    /\ stats' = get_stats(stats, cache_enabled,
                           cache_get(cache_enabled, store, endpoint, params))
    /\ UNCHANGED <<providers, cache_enabled, store, hist, clock, redis_up, exec, threads>>

\* cache.set(endpoint, data, params, ttl); hist keeps the latest set that
\* returned True and that no other writing operation has followed
CacheSet(endpoint, data, params, ttl) ==
    /\ Idle
    /\ store' = cache_set(cache_enabled, store, endpoint, data, params, ttl)
    /\ last' = [NoCall EXCEPT !.op = "set", !.args = <<endpoint, data, params, ttl>>,
                              !.cache = store,
                              !.target = IF redis_up THEN 1 ELSE 0,
                              !.result = <<cache_enabled /\ redis_up>>]
    /\ hist' = IF cache_enabled /\ redis_up
               THEN << [endpoint |-> endpoint, params |-> params, data |-> data,
                        at |-> clock,
                        ttl |-> ResolvedTTL(endpoint, params, ttl, clock)] >>
               ELSE hist
    /\ stats' = set_stats(stats, cache_enabled)
    /\ UNCHANGED <<providers, cache_enabled, clock, redis_up, exec, threads>>

\* cache.get_batch(requests)
CacheGetBatch(requests) ==
    /\ Idle
    /\ last' = [NoCall EXCEPT !.op = "get_batch", !.args = <<requests>>,
                              !.cache = store,
                              !.target = IF redis_up THEN 1 ELSE 0,
                              !.results = cache_get_batch(cache_enabled, store, requests)]
    /\ stats' = get_batch_stats(stats, cache_enabled, store, requests)
    /\ UNCHANGED <<providers, cache_enabled, store, hist, clock, redis_up, exec, threads>>

\* cache.set_batch(data_items): every setex of the pipeline succeeds, or the
\* pipeline cannot be executed
CacheSetBatch(items) ==
    /\ Idle
    /\ store' = cache_set_batch(cache_enabled, store, items)
    /\ last' = [NoCall EXCEPT !.op = "set_batch", !.args = <<items>>,
                              !.cache = store,
                              !.target = IF redis_up THEN 1 ELSE 0,
                              !.result = <<IF cache_enabled /\ redis_up
                                           THEN Len(items) ELSE 0>>]
    /\ hist' = <<>>
    /\ stats' = set_batch_stats(stats, cache_enabled, items)
    /\ UNCHANGED <<providers, cache_enabled, clock, redis_up, exec, threads>>

\* cache.smart_invalidate(patterns, data_types, older_than_minutes)
SmartInvalidate(patterns, data_types, older_than_minutes) ==
    /\ Idle
    /\ LET keys == keys_to_delete(cache_enabled, store, patterns, data_types,
                                  older_than_minutes)
       IN /\ store' = Delete(store, keys)
          /\ last' = [NoCall EXCEPT
                         !.op = "smart_invalidate",
                         !.args = <<patterns, data_types, older_than_minutes, clock>>,
                         !.cache = store,
                         !.target = IF redis_up THEN 1 ELSE 0,
                         !.result = <<Cardinality(keys)>>]
    /\ hist' = <<>>
    /\ UNCHANGED <<providers, cache_enabled, clock, redis_up, exec, stats, threads>>

\* cache.clear_all_cache(): invalidate_pattern("") absorbs a backend error,
\* so True is returned whenever the cache was enabled at construction
ClearAllCache ==
    /\ Idle
    /\ store' = Delete(store, invalidate_pattern_keys(cache_enabled, store, <<>>))
    /\ last' = [NoCall EXCEPT !.op = "clear_all_cache", !.cache = store,
                              !.target = IF redis_up THEN 1 ELSE 0,
                              !.result = <<cache_enabled>>]
    /\ hist' = <<>>
    /\ UNCHANGED <<providers, cache_enabled, clock, redis_up, exec, stats, threads>>

\* TICK seconds pass; Redis drops the keys whose TTL has elapsed
Tick ==
    /\ Idle
    /\ clock + TICK <= NOON + MaxTicks * TICK
    /\ clock' = clock + TICK
    /\ store' = Unexpired(store, clock + TICK)
    /\ UNCHANGED <<providers, cache_enabled, last, hist, redis_up, exec, stats, threads>>

\* Redis stops answering (connection refused, timeout); it keeps its data
BackendFails ==
    /\ Idle
    /\ redis_up
    /\ redis_up' = FALSE
    /\ UNCHANGED <<providers, cache_enabled, store, last, hist, clock, exec, stats, threads>>

\* Redis answers again
BackendRecovers ==
    /\ Idle
    /\ ~redis_up
    /\ redis_up' = TRUE
    /\ UNCHANGED <<providers, cache_enabled, store, last, hist, clock, exec, stats, threads>>

\* another application writes its key
ForeignWrite ==
    /\ Idle
    /\ redis_up
    /\ FOREIGN_KEY \notin DOMAIN store
    /\ store' = Put(store, FOREIGN_KEY, ForeignEntry)
    /\ UNCHANGED <<providers, cache_enabled, last, hist, clock, redis_up, exec, stats, threads>>

\* BatchOptimizer.group_by_provider(requests, self.providers)
GroupByProvider(requests) ==
    /\ Idle
    /\ last' = [NoCall EXCEPT !.op = "group_by_provider", !.requests = requests,
                              !.before = providers,
                              !.result = group_by_provider(requests, providers, <<>>)]
    /\ UNCHANGED <<providers, cache_enabled, store, hist, clock, redis_up, exec, stats, threads>>

\* get_metric statement by statement, in a thread of its own: the list
\* available_providers is built once, then each provider of the list is
\* invoked; provider.record_failure() is the statements
\* `self.failure_count += 1` (a load, then a store) and the threshold test
IdleThread == [pc |-> "idle", recorded |-> [i \in 1..MaxProviders |-> 0]]

\* faulty variant: the loop reads the registry's list of providers as it is
\* now, not the list built when the call started
ThreadProvider_live(th, provs) ==
    IF th.pos <= Len(available_providers(provs, th.metric))
    THEN available_providers(provs, th.metric)[th.pos]
    ELSE th.available[th.pos]

\* the provider the loop is at: an element of the local list
ThreadProvider(th, provs) == th.available[th.pos]

\* the loop moves on to the next provider, or get_metric returns None
ThreadNext(th) ==
    IF th.pos < Len(th.available)
    THEN [th EXCEPT !.pc = "invoke", !.pos = @ + 1]
    ELSE [th EXCEPT !.pc = "idle"]

\* get_metric(metric, asset) starts: lines 171-176
ThreadGetMetric(t, metric, asset) ==
    /\ threads[t].pc = "idle"
    /\ LET available == available_providers(providers, metric)
       IN threads' = [threads EXCEPT ![t] =
              [pc |-> IF available = <<>> THEN "idle" ELSE "invoke",
               metric |-> metric, asset |-> asset, registered |-> Len(providers),
               available |-> available, pos |-> 1, tried |-> <<>>, count |-> 0,
               recorded |-> threads[t].recorded]]
    /\ UNCHANGED <<providers, cache_enabled, store, last, hist, clock, redis_up, exec, stats>>

\* provider.loader_func(metric, asset) returns or raises: lines 182-192
ThreadInvoke(t, outcome) ==
    /\ threads[t].pc = "invoke"
    /\ LET th == threads[t]
           i == ThreadProvider(th, providers)
           tried == [th EXCEPT !.tried = Append(@, i)]
       IN CASE outcome = "raise" ->
                 /\ threads' = [threads EXCEPT ![t] = [tried EXCEPT !.pc = "load"]]
                 /\ UNCHANGED providers
            [] outcome = "data" ->
                 /\ threads' = [threads EXCEPT ![t] = [tried EXCEPT !.pc = "idle"]]
                 /\ providers' = [providers EXCEPT ![i] = record_success(@)]
            [] OTHER ->
                 /\ threads' = [threads EXCEPT ![t] = ThreadNext(tried)]
                 /\ UNCHANGED providers
    /\ UNCHANGED <<cache_enabled, store, last, hist, clock, redis_up, exec, stats>>

\* record_failure: self.failure_count is loaded
ThreadLoadCount(t) ==
    /\ threads[t].pc = "load"
    /\ threads' = [threads EXCEPT
           ![t].pc = "store",
           ![t].count = providers[ThreadProvider(threads[t], providers)].failure_count]
    /\ UNCHANGED <<providers, cache_enabled, store, last, hist, clock, redis_up, exec, stats>>

\* record_failure: the loaded value plus one is stored
ThreadStoreCount(t) ==
    /\ threads[t].pc = "store"
    /\ threads[t].count < MaxFailures
    /\ providers' = [providers EXCEPT
           ![ThreadProvider(threads[t], providers)].failure_count = threads[t].count + 1]
    /\ threads' = [threads EXCEPT ![t].pc = "test"]
    /\ UNCHANGED <<cache_enabled, store, last, hist, clock, redis_up, exec, stats>>

\* record_failure: `if self.failure_count >= 3: self.is_healthy = False`;
\* recorded counts, per provider, the thread's finished record_failure calls
ThreadTestCount(t) ==
    /\ threads[t].pc = "test"
    /\ LET i == ThreadProvider(threads[t], providers)
       IN /\ providers' = [providers EXCEPT
                 ![i].is_healthy = IF providers[i].failure_count >= HEALTH_THRESHOLD
                                   THEN FALSE ELSE @]
          /\ threads' = [threads EXCEPT
                 ![t] = ThreadNext([threads[t] EXCEPT !.recorded[i] = @ + 1])]
    /\ UNCHANGED <<cache_enabled, store, last, hist, clock, redis_up, exec, stats>>
\* the caller takes the return value
Observe ==
    /\ ~Idle
    /\ last' = NoCall
    /\ UNCHANGED <<providers, cache_enabled, store, hist, clock, redis_up, exec, stats, threads>>

----------------------------------------------------------------------------
(* Specifications *)

\* the registry after construction; get_cache_manager() found Redis
\* unreachable (enabled = FALSE) or reachable
InitWith(enabled) ==
    /\ providers = InitialProviders
    /\ cache_enabled = enabled
    /\ store = EmptyMap
    /\ last = NoCall
    /\ hist = <<>>
    /\ clock = NOON
    /\ redis_up = enabled
    /\ exec = NoExec
    /\ stats = NoStats
    /\ threads = NoThreads

\* Spec: every operation that touches provider health, single and batch,
\* Redis being unreachable
Init == InitWith(FALSE)

Next ==
    \/ \E rq \in RequestPool : GetMetric(rq[1], rq[2], Outcomes)
    \/ \E requests \in RequestLists(MaxBatch) :
           GetMetricsBatch(requests, FALSE, BatchOutcomes)
    \/ \E i \in HealthTargets(providers) : RecordSuccess(i)
    \/ \E i \in HealthTargets(providers) : RecordFailure(i)
    \/ \E i \in 1..Len(providers) : ResetHealth(i)
    \/ ResetAllProviders
    \/ \E n \in FreshNames(providers), pr \in BatchCustomPriorities,
          ms \in CustomMetrics :
           AddCustomProvider(n, pr, ms)
    \/ Observe

Spec == Init /\ [][Next]_vars

\* SpecFallback: the single-metric path and the health operations
InitFallback == InitWith(FALSE)

NextFallback ==
    \/ \E rq \in RequestPool : GetMetric(rq[1], rq[2], Outcomes)
    \/ \E i \in 1..Len(providers) : ResetHealth(i)
    \/ ResetAllProviders
    \/ \E n \in CustomNames, pr \in CustomPriorities, ms \in CustomMetrics :
           AddCustomProvider(n, pr, ms)
    \/ Observe

SpecFallback == InitFallback /\ [][NextFallback]_vars

\* SpecCache: the batch path over a reachable cache, with cache warming and
\* TTL expiry, the loaders answering without raising
InitCache == InitWith(TRUE)

NextCache ==
    \/ \E requests \in RequestLists(MaxBatch), use_cache \in BOOLEAN :
           GetMetricsBatch(requests, use_cache, QuietOutcomes)
    \/ \E rq \in RequestPool : WarmCriticalMetrics(rq[1], rq[2], QuietOutcomes)
    \/ \E key \in DOMAIN store : CacheExpire(key)
    \/ \E n \in CustomNames, pr \in BatchCustomPriorities, ms \in CustomMetrics :
           AddCustomProvider(n, pr, ms)
    \/ Observe

SpecCache == InitCache /\ [][NextCache]_vars

\* SpecCacheDown: the registry while Redis cannot be reached, either since
\* the construction of the cache manager (cache_enabled False) or only now
InitCacheDown ==
    /\ providers = InitialProviders
    /\ cache_enabled \in BOOLEAN
    /\ store = EmptyMap
    /\ last = NoCall
    /\ hist = <<>>
    /\ clock = NOON
    /\ redis_up = FALSE
    /\ exec = NoExec
    /\ stats = NoStats
    /\ threads = NoThreads

NextCacheDown ==
    \/ \E requests \in RequestLists(MaxBatch), use_cache \in BOOLEAN :
           GetMetricsBatch(requests, use_cache, BatchOutcomes)
    \/ ResetAllProviders
    \/ \E n \in FreshNames(providers), pr \in BatchCustomPriorities,
          ms \in CustomMetrics :
           AddCustomProvider(n, pr, ms)
    \/ Observe

SpecCacheDown == InitCacheDown /\ [][NextCacheDown]_vars

\* SpecCacheOps: the cache manager's operations on a Redis that was reachable
\* at construction or not, fails and recovers, while time passes
InitCacheOps ==
    /\ providers = InitialProviders
    /\ cache_enabled \in BOOLEAN
    /\ store = EmptyMap
    /\ last = NoCall
    /\ hist = <<>>
    /\ clock = NOON
    /\ redis_up = cache_enabled
    /\ exec = NoExec
    /\ stats = NoStats
    /\ threads = NoThreads

NextCacheOps ==
    \/ \E e \in CacheEndpoints : CacheGet(e, CacheParams)
    \/ \E e \in CacheEndpoints, v \in CacheValues : CacheSet(e, v, CacheParams, <<>>)
    \/ \E requests \in ListsOf(CacheRequests, MaxBatch) : CacheGetBatch(requests)
    \/ \E items \in ListsOf(CacheDataItems, MaxBatch) : CacheSetBatch(items)
    \/ \E ps \in PatternFilters, dts \in DataTypeFilters, age \in AgeFilters :
           SmartInvalidate(ps, dts, age)
    \/ ClearAllCache
    \/ Tick
    \/ BackendFails
    \/ BackendRecovers
    \/ ForeignWrite
    \/ Observe

SpecCacheOps == InitCacheOps /\ [][NextCacheOps]_vars

\* SpecCustom: a caller registers one provider, under any name, also one a
\* built-in provider already has, and asks for metrics one by one and in batches
InitCustom == InitWith(FALSE)

NextCustom ==
    \/ \E rq \in RequestPool : GetMetric(rq[1], rq[2], BatchOutcomes)
    \/ \E requests \in RequestLists(MaxBatch) :
           GetMetricsBatch(requests, FALSE, BatchOutcomes)
    \/ \E n \in AnyCustomNames, pr \in CustomPriorities, ms \in CustomMetrics :
           Len(providers) = Len(InitialProviders) /\ AddCustomProvider(n, pr, ms)
    \/ Observe

SpecCustom == InitCustom /\ [][NextCustom]_vars

\* SpecGroup: group_by_provider applied to the registry while providers fail,
\* are reset and one custom provider is registered
InitGroup == InitWith(FALSE)

NextGroup ==
    \/ \E requests \in UniqueRequestLists(MaxBatch) : GroupByProvider(requests)
    \/ \E i \in GroupTargets(providers) : RecordFailure(i)
    \/ \E i \in GroupTargets(providers) : ResetHealth(i)
    \/ \E n \in AnyCustomNames, pr \in CustomPriorities, ms \in CustomMetrics :
           Len(providers) = Len(InitialProviders) /\ AddCustomProvider(n, pr, ms)
    \/ Observe

SpecGroup == InitGroup /\ [][NextGroup]_vars

\* SpecCacheOrder: get, set and get_batch with one parameter map written in
\* its two orders, Redis reachable
InitCacheOrder == InitWith(TRUE)

NextCacheOrder ==
    \/ \E e \in CacheEndpoints, ps \in OrderedParams : CacheGet(e, ps)
    \/ \E e \in CacheEndpoints, v \in CacheValues, ps \in OrderedParams :
           CacheSet(e, v, ps, <<>>)
    \/ \E requests \in ListsOf(OrderedRequests, MaxBatch) : CacheGetBatch(requests)
    \/ Observe

SpecCacheOrder == InitCacheOrder /\ [][NextCacheOrder]_vars

\* SpecCacheStats: get, set and get_batch with the cache's counters followed,
\* on a manager constructed with or without Redis; MaxCalls bounds the calls
InitCacheStats ==
    /\ providers = InitialProviders
    /\ cache_enabled \in BOOLEAN
    /\ store = EmptyMap
    /\ last = NoCall
    /\ hist = <<>>
    /\ clock = NOON
    /\ redis_up = cache_enabled
    /\ exec = NoExec
    /\ stats = ZeroStats
    /\ threads = NoThreads

NextCacheStats ==
    \/ \E e \in CacheEndpoints :
           stats.get_calls < MaxCalls /\ CacheGet(e, CacheParams)
    \/ \E e \in CacheEndpoints :
           stats.sets < MaxCalls /\ CacheSet(e, LoaderValue("Glassnode", PRICE, BTC),
                                              CacheParams, <<>>)
    \/ \E requests \in ListsOf(CacheRequests, MaxBatch) :
           stats.batch_requests < MaxCalls /\ CacheGetBatch(requests)
    \/ \E key \in DOMAIN store : CacheExpire(key)
    \/ BackendFails
    \/ BackendRecovers
    \/ Observe

SpecCacheStats == InitCacheStats /\ [][NextCacheStats]_vars

\* SpecBatchStats: get_metrics_batch calls, cached and uncached, with the
\* registry's counters followed; MaxCalls bounds the calls
InitBatchStats ==
    /\ providers = InitialProviders
    /\ cache_enabled = TRUE
    /\ store = EmptyMap
    /\ last = NoCall
    /\ hist = <<>>
    /\ clock = NOON
    /\ redis_up = TRUE
    /\ exec = NoExec
    /\ stats = ZeroStats
    /\ threads = NoThreads

NextBatchStats ==
    \/ \E requests \in ListsOf(StatsRequestPool, MaxBatch), use_cache \in BOOLEAN :
           stats.batch_calls < MaxCalls
           /\ GetMetricsBatch(requests, use_cache, QuietOutcomes)
    \/ Observe

SpecBatchStats == InitBatchStats /\ [][NextBatchStats]_vars

\* SpecRace: one get_metrics_batch call and the get_metric calls of another
\* thread run at the same time on the same providers; no loader returns
\* data and no provider is reset
InitRace ==
    /\ providers = InitialProviders
    /\ cache_enabled = FALSE
    /\ store = EmptyMap
    /\ last = NoCall
    /\ hist = <<>>
    /\ clock = NOON
    /\ redis_up = FALSE
    /\ exec = NoExec
    /\ stats = NoStats
    /\ threads = <<IdleThread>>

NextRace ==
    \/ \E requests \in RaceRequestLists : BatchSubmit(requests, FALSE, MaxConcurrent)
    \/ ExecutorSubmit
    \/ \E t \in 1..MaxBatch : TaskStart(t)
    \/ \E t \in 1..MaxBatch : LoaderEnter(t)
    \/ \E t \in 1..MaxBatch, outcome \in FailingOutcomes : LoaderReturn(t, outcome)
    \/ \E t \in 1..MaxBatch : TaskFinish(t)
    \/ BatchReturn
    \/ ThreadGetMetric(1, PRICE, BTC)
    \/ \E outcome \in FailingOutcomes : ThreadInvoke(1, outcome)
    \/ ThreadLoadCount(1)
    \/ ThreadStoreCount(1)
    \/ ThreadTestCount(1)

SpecRace == InitRace /\ [][NextRace]_vars

\* SpecInFlight: a get_metrics_batch call and the get_metric calls of
\* another thread, both for "defi_tvl", while a third caller registers a
\* custom provider that advertises "defi_tvl"; the loaders raise in the
\* batch call only
InitInFlight == InitRace

NextInFlight ==
    \/ \E requests \in ListsOf({ <<DEFI_TVL, ETH>> }, MaxBatch) :
           BatchSubmit(requests, FALSE, MaxConcurrent)
    \/ ExecutorSubmit
    \/ \E t \in 1..MaxBatch : TaskStart(t)
    \/ \E t \in 1..MaxBatch : LoaderEnter(t)
    \/ \E t \in 1..MaxBatch, outcome \in BatchOutcomes : LoaderReturn(t, outcome)
    \/ \E t \in 1..MaxBatch : TaskFinish(t)
    \/ BatchReturn
    \/ ThreadGetMetric(1, DEFI_TVL, ETH)
    \/ \E outcome \in QuietOutcomes : ThreadInvoke(1, outcome)
    \/ \E n \in AnyCustomNames, pr \in CustomPriorities, ms \in CustomMetrics :
           Len(providers) = Len(InitialProviders) /\ AddCustomProvider(n, pr, ms)

SpecInFlight == InitInFlight /\ [][NextInFlight]_vars

\* SpecJoin: get_metrics_batch step by step, a task of which may end with an
\* exception; every thread that can take a step eventually takes one, a
\* loader that was entered returning being such a step
InitJoin == InitWith(FALSE)

ExecutorStep ==
    \/ ExecutorSubmit
    \/ \E t \in 1..MaxBatch : TaskStart(t)
    \/ \E t \in 1..MaxBatch : LoaderEnter(t)
    \/ \E t \in 1..MaxBatch, outcome \in QuietOutcomes : LoaderReturn(t, outcome)
    \/ \E t \in 1..MaxBatch : TaskRaises(t)
    \/ \E t \in 1..MaxBatch : TaskFinish(t)
    \/ BatchReturn

NextJoin ==
    \/ \E requests \in ListsOf(JoinRequestPool, MaxBatch), mc \in 1..MaxConcurrent :
           BatchSubmit(requests, FALSE, mc)
    \/ ExecutorStep
    \/ Observe

SpecJoin == InitJoin /\ [][NextJoin]_vars /\ WF_vars(ExecutorStep)

\* SpecWarm: cache warming over asset x metric cross products of at most
\* MaxBatch pairs, the loaders answering with data or None, and TTL expiry
InitWarm == InitWith(TRUE)

NextWarm ==
    \/ \E assets \in DistinctLists(WarmAssets, MaxBatch),
          critical_metrics \in DistinctLists(WarmMetrics, MaxBatch) :
           /\ Len(assets) * Len(critical_metrics) <= MaxBatch
           /\ WarmCriticalMetricsOver(assets, critical_metrics, QuietOutcomes)
    \/ \E key \in DOMAIN store : CacheExpire(key)
    \/ Observe

SpecWarm == InitWarm /\ [][NextWarm]_vars
\* SpecAnalysis: get_comprehensive_analysis over a reachable cache, between
\* single fetches, TTL expiry and health resets
InitAnalysis == InitWith(TRUE)

NextAnalysis ==
    \/ \E asset \in WarmAssets : GetComprehensiveAnalysis(asset, BatchOutcomes)
    \/ \E asset \in WarmAssets : GetMetric(PRICE, asset, BatchOutcomes)
    \/ \E key \in DOMAIN store : CacheExpire(key)
    \/ ResetAllProviders
    \/ Observe

SpecAnalysis == InitAnalysis /\ [][NextAnalysis]_vars
\* SpecSingle: get_metric for price, between batch calls for defi_tvl that
\* fill the cache and move the counters
InitSingle == InitBatchStats

NextSingle ==
    \/ GetMetric(PRICE, BTC, Outcomes)
    \/ /\ stats.batch_calls < MaxCalls
       /\ GetMetricsBatch(<< <<DEFI_TVL, ETH>> >>, TRUE, {"data"})
    \/ Observe

SpecSingle == InitSingle /\ [][NextSingle]_vars
\* SpecTTL: the TTL strategy applied to every tag and pair of flags
InitTTL == InitWith(FALSE)

NextTTL ==
    \/ \E dt \in TTLTags, mh \in BOOLEAN, hv \in BOOLEAN : GetTTL(dt, mh, hv)
    \/ \E dt \in TTLTags, ot \in TTLTags, mh \in BOOLEAN, hv \in BOOLEAN :
           GetTTLPair(dt, ot, mh, hv)
    \/ Observe

SpecTTL == InitTTL /\ [][NextTTL]_vars

\* SpecThreads: get_metrics_batch step by step, one call at a time, the
\* worker threads of its executor interleaving freely
InitThreads == InitWith(FALSE)

NextThreads ==
    \/ \E requests \in ThreadRequestLists(MaxBatch), mc \in 0..MaxConcurrent :
           BatchSubmit(requests, FALSE, mc)
    \/ ExecutorSubmit
    \/ \E t \in 1..MaxBatch : TaskStart(t)
    \/ \E t \in 1..MaxBatch : LoaderEnter(t)
    \/ \E t \in 1..MaxBatch, outcome \in QuietOutcomes : LoaderReturn(t, outcome)
    \/ \E t \in 1..MaxBatch : TaskFinish(t)
    \/ BatchReturn
    \/ \E n \in FreshNames(providers), pr \in BatchCustomPriorities,
          ms \in CustomMetrics :
           exec.phase = "idle" /\ AddCustomProvider(n, pr, ms)
    \/ Observe

SpecThreads == InitThreads /\ [][NextThreads]_vars

\* SpecScenario: MaxCalls calls of get_metric("price", asset) on the scenario's
\* registry, A and B registered in either order
InitScenario ==
    /\ providers \in {ScenarioProviders,
                       <<ScenarioProviders[2], ScenarioProviders[1]>>}
    /\ cache_enabled = FALSE
    /\ store = EmptyMap
    /\ last = NoCall
    /\ hist = <<>>
    /\ clock = NOON
    /\ redis_up = FALSE
    /\ exec = NoExec
    /\ stats = NoStats
    /\ threads = NoThreads

NextScenario ==
    \/ \E asset \in ScenarioAssets : ScenarioGetMetric(asset)
    \/ Observe

SpecScenario == InitScenario /\ [][NextScenario]_vars

----------------------------------------------------------------------------
(* Properties *)

\* provider i of the list provs advertises the metric and is Healthy
Eligible(provs, i, metric) ==
    metric \in provs[i].available_metrics /\ provs[i].is_healthy

\* provider i strictly precedes provider j in (priority, failure_count) order
Precedes(provs, i, j) ==
    \/ provs[i].priority < provs[j].priority
    \/ /\ provs[i].priority = provs[j].priority
       /\ provs[i].failure_count < provs[j].failure_count

\* C1: get_metric invokes only providers that were eligible when the call
\* started, each at most once, in ascending (priority, failure_count) order;
\* every invocation but the last gave no non-empty result; the call returns
\* the value of the first non-empty answer, and every eligible provider that
\* was not invoked comes no earlier in the order than the one that answered.
C1_FirstSuccessInOrder ==
    last.op = "get_metric" =>
        LET b == last.before
            calls == last.calls
            n == Len(calls)
        IN /\ \A k \in 1..n : Eligible(b, calls[k].provider, last.metric)
           /\ \A k, h \in 1..n :
                k < h => /\ calls[k].provider # calls[h].provider
                         /\ ~Precedes(b, calls[h].provider, calls[k].provider)
           /\ \A k \in 1..(n - 1) : calls[k].outcome # "data"
           /\ IF n > 0 /\ calls[n].outcome = "data"
              THEN /\ last.result = LoaderValue(b[calls[n].provider].name,
                                                last.metric, last.asset)
                   /\ \A j \in 1..Len(b) :
                        (Eligible(b, j, last.metric)
                            /\ \A k \in 1..n : calls[k].provider # j)
                        => ~Precedes(b, j, calls[n].provider)
              ELSE /\ last.result = None
                   /\ \A j \in 1..Len(b) :
                        Eligible(b, j, last.metric)
                        => \E k \in 1..n : calls[k].provider = j

\* C1 witness: a call that fell through the preferred provider, registered
\* last, to the next one in order, which answered
C1_Witness ==
    /\ last.op = "get_metric"
    /\ Len(last.calls) = 2
    /\ last.calls[1].outcome = "raise"
    /\ last.calls[2].outcome = "data"
    /\ last.calls[1].provider > last.calls[2].provider
    /\ last.before[last.calls[1].provider].priority
         < last.before[last.calls[2].provider].priority
    /\ last.result # None

\* C3: get_metric never raises; it returns None when no provider is eligible
\* (and then invokes no loader) and when every eligible provider raised or
\* returned an empty result.
C3_NeverRaises ==
    last.op = "get_metric" =>
        /\ ~last.raised
        /\ (\A j \in 1..Len(last.before) : ~Eligible(last.before, j, last.metric))
            => (last.result = None /\ last.calls = <<>>)
        /\ (\A k \in 1..Len(last.calls) : last.calls[k].outcome # "data")
            => last.result = None

\* C3 witness: a call in which a loader raised and another returned an empty
\* DataFrame, every eligible provider having been tried
C3_Witness ==
    /\ last.op = "get_metric"
    /\ ~last.raised
    /\ last.result = None
    /\ \E k \in 1..Len(last.calls) : last.calls[k].outcome = "raise"
    /\ \E k \in 1..Len(last.calls) : last.calls[k].outcome = "empty_df"

\* C7: after reset_health the provider is Healthy with failure_count 0; after
\* reset_all_providers every registered provider is, custom ones included,
\* and the number of healthy providers equals the number of providers.
C7_ResetRestores ==
    /\ last.op = "reset_health" =>
          /\ providers[last.target].is_healthy
          /\ providers[last.target].failure_count = 0
    /\ last.op = "reset_all_providers" =>
          /\ \A i \in 1..Len(providers) :
                providers[i].is_healthy /\ providers[i].failure_count = 0
          /\ Cardinality({i \in 1..Len(providers) : providers[i].is_healthy})
               = Len(providers)

\* C7 witness: reset_all_providers called with a built-in and a custom
\* provider both Unhealthy
C7_Witness ==
    /\ last.op = "reset_all_providers"
    /\ Len(providers) > Len(InitialProviders)
    /\ \E i \in 1..Len(InitialProviders) : ~last.before[i].is_healthy
    /\ \E i \in (Len(InitialProviders) + 1)..Len(providers) :
          ~last.before[i].is_healthy /\ last.before[i].failure_count >= HEALTH_THRESHOLD

\* C2: in get_metric every provider invoked without a non-empty answer,
\* whether its loader raised or returned an empty result, has failure_count
\* one higher than when the call started, and the provider that answered has
\* failure_count 0.
C2_EveryFailureRecorded ==
    last.op = "get_metric" =>
        \A k \in 1..Len(last.calls) :
            LET i == last.calls[k].provider
            IN IF last.calls[k].outcome = "data"
               THEN providers[i].failure_count = 0
               ELSE providers[i].failure_count = last.before[i].failure_count + 1

\* C4: for every provider, failure_count >= 0, and failure_count >= 3 implies
\* that the provider is not Healthy.
C4_ThresholdInvariant ==
    \A i \in 1..Len(providers) :
        /\ providers[i].failure_count >= 0
        /\ providers[i].failure_count >= HEALTH_THRESHOLD => ~providers[i].is_healthy

\* C4 witness: a batch call has carried a provider's failure_count past the
\* threshold
C4_Witness ==
    /\ last.op = "get_metrics_batch"
    /\ \E i \in 1..Len(providers) :
          /\ providers[i].failure_count > HEALTH_THRESHOLD
          /\ last.before[i].failure_count < HEALTH_THRESHOLD
          /\ ~providers[i].is_healthy

\* C5: get_metric and get_metrics_batch never invoke the loader of a provider
\* that is Unhealthy at that moment, and a provider that was Unhealthy when
\* the call started is Unhealthy when it returns.
C5_UnhealthyUntilReset ==
    last.op \in {"get_metric", "get_metrics_batch"} =>
        /\ \A k \in 1..Len(last.calls) : last.calls[k].healthy
        /\ \A i \in 1..Len(last.before) :
              ~last.before[i].is_healthy => ~providers[i].is_healthy

\* C10: the map get_metrics_batch returns has an entry for the identifier of
\* every request of the list.
C10_EntryForEveryRequest ==
    (last.op = "get_metrics_batch" /\ ~last.raised) =>
        \A j \in 1..Len(last.requests) :
            RequestId(last.requests[j][1], last.requests[j][2]) \in DOMAIN last.results

\* C8: get_metrics_batch invokes loaders only for pairs of the request list
\* and at most once for each distinct (metric, asset) pair, and the entry the
\* returned map holds for an invoked pair, which every occurrence of the pair
\* reads, is the outcome of that one invocation.
C8_AtMostOncePerPair ==
    last.op = "get_metrics_batch" =>
        LET calls == last.calls
        IN /\ \A k, h \in 1..Len(calls) :
                k # h => <<calls[k].metric, calls[k].asset>>
                            # <<calls[h].metric, calls[h].asset>>
           /\ \A k \in 1..Len(calls) :
                \E j \in 1..Len(last.requests) :
                    last.requests[j] = <<calls[k].metric, calls[k].asset>>
           /\ ~last.raised =>
                \A k \in 1..Len(calls) :
                    LET id == RequestId(calls[k].metric, calls[k].asset)
                    IN /\ id \in DOMAIN last.results
                       /\ last.results[id] =
                            IF calls[k].outcome = "data"
                            THEN LoaderValue(last.before[calls[k].provider].name,
                                             calls[k].metric, calls[k].asset)
                            ELSE None

\* C8 witness: a cache-first batch of twice the same pair, answered by one
\* loader invocation
C8_Witness ==
    /\ last.op = "get_metrics_batch"
    /\ last.use_cache
    /\ ~last.raised
    /\ Len(last.requests) = 2
    /\ last.requests[1] = last.requests[2]
    /\ Len(last.calls) = 1
    /\ last.calls[1].outcome = "data"
    /\ DOMAIN last.results = {RequestId(last.requests[1][1], last.requests[1][2])}

\* C9: when get_metrics_batch is called with use_cache and the cache holds an
\* entry for a requested (metric, asset), the call returns that entry's
\* payload for the request and invokes no loader for it.
C9_CachedEntryServed ==
    (last.op = "get_metrics_batch" /\ last.use_cache) =>
        \A j \in 1..Len(last.requests) :
            LET metric == last.requests[j][1]
                asset == last.requests[j][2]
                key == generate_cache_key(MetricEndpoint(metric),
                                          MetricParams(metric, asset))
            IN key \in DOMAIN last.cache =>
                /\ ~last.raised
                /\ RequestId(metric, asset) \in DOMAIN last.results
                /\ last.results[RequestId(metric, asset)] = last.cache[key].data
                /\ \A k \in 1..Len(last.calls) :
                      <<last.calls[k].metric, last.calls[k].asset>> # <<metric, asset>>

\* C6 as stated: in the scenario each of the first three calls returns None,
\* A is Unhealthy after the third call, and the fourth call returns B's value.
C6_ThreeNullsThenB ==
    /\ \A k \in 1..Len(hist) : k <= HEALTH_THRESHOLD => hist[k].result = None
    /\ Len(hist) >= HEALTH_THRESHOLD => "A" \in hist[HEALTH_THRESHOLD].unhealthy
    /\ Len(hist) > HEALTH_THRESHOLD =>
          hist[HEALTH_THRESHOLD + 1].result
            = LoaderValue("B", PRICE, hist[HEALTH_THRESHOLD + 1].asset)

\* C6 amended: in the scenario each of the first three calls invokes A, which
\* raises, then B, and returns B's value; A is Healthy after the first and
\* second call and Unhealthy after the third; the fourth call invokes only B
\* and returns B's value.
C6_FallbackThenExclusion ==
    /\ \A k \in 1..Len(hist) :
          k <= HEALTH_THRESHOLD =>
              /\ hist[k].invoked = <<"A", "B">>
              /\ hist[k].result = LoaderValue("B", PRICE, hist[k].asset)
              /\ "A" \in hist[k].unhealthy <=> k = HEALTH_THRESHOLD
    /\ Len(hist) > HEALTH_THRESHOLD =>
          /\ hist[HEALTH_THRESHOLD + 1].invoked = <<"B">>
          /\ hist[HEALTH_THRESHOLD + 1].result
               = LoaderValue("B", PRICE, hist[HEALTH_THRESHOLD + 1].asset)
          /\ hist[HEALTH_THRESHOLD + 1].unhealthy = {"A"}

\* C6 witness: four calls of get_metric("price", "BTC") have returned
C6_Witness ==
    /\ Len(hist) = HEALTH_THRESHOLD + 1
    /\ \A k \in 1..Len(hist) : hist[k].asset = BTC
    /\ hist[Len(hist)].result = LoaderValue("B", PRICE, BTC)
    /\ last.op = "none"

\* the loader invocations task t has completed, in order
TaskCalls(e, t) == SelectSeq(e.calls, LAMBDA c : c.task = t)

\* the places (task, position) at which the tasks hold request rq
TaskSlots(e, rq) ==
    {<<t, k>> \in (1..Len(e.tasks)) \X (1..MaxBatch) :
        k <= Len(e.tasks[t].requests) /\ e.tasks[t].requests[k] = rq}

\* C11: while a get_metrics_batch call is in progress, the number of group
\* tasks being executed is at most max_concurrent, however many requests and
\* groups the batch has; the peak reported when the call returns is at most
\* max_concurrent too.
C11_RunningTasksCapped ==
    /\ exec.phase = "running" =>
          Cardinality(RunningTasks(exec)) <= exec.max_workers
    /\ (last.op = "get_metrics_batch" /\ Len(last.args) = 2 /\ ~last.raised) =>
          last.args[2] <= last.args[1]

\* C11 witness: a batch of more groups than max_concurrent; max_concurrent
\* tasks are being executed and a further task waits in the queue
C11_Witness ==
    /\ exec.phase = "running"
    /\ Len(exec.tasks) > exec.max_workers
    /\ Cardinality(RunningTasks(exec)) = exec.max_workers
    /\ \E t \in 1..Len(exec.tasks) : exec.tasks[t].status = "queued"
    /\ \E t \in RunningTasks(exec) : exec.tasks[t].invoking

ClassRank(data_type) ==
    CHOOSE k \in 1..Len(VolatilityClasses) : VolatilityClasses[k] = VolatilityOf(data_type)

NETWORK_METRICS == <<"network", "_", "metrics">>
ORDER_BOOK == <<"order", "_", "book">>
ACTIVE_ADDRESSES == <<"active", "_", "address", "es">>

\* C16: for every tag and both flags get_ttl returns the reference value: the
\* base TTL of the tag's class (10, 30, 60, 300, 900 seconds; MEDIUM, 60, for
\* a tag that is not mapped), doubled when market_hours is false, then halved
\* and floored at 5 seconds when high_volatility_period is true; for
\* "network_metrics" off-hours outside a high-volatility period it is 600.
C16_TTLEqualsReference ==
    last.op = "get_ttl" =>
        LET tag == last.args[1]
            market_hours == last.args[2]
            high_volatility_period == last.args[3]
            mapped == \E j \in 1..Len(DATA_TYPE_VOLATILITY) :
                          DATA_TYPE_VOLATILITY[j][1] = tag
            rank == IF mapped THEN ClassRank(tag) ELSE 3
            base == <<10, 30, 60, 300, 900>>[rank]
            off_hours == IF market_hours THEN base ELSE 2 * base
            half == off_hours \div 2
            reference == IF high_volatility_period
                         THEN (IF half < 5 THEN 5 ELSE half)
                         ELSE off_hours
        IN /\ last.result = reference
           /\ (tag = NETWORK_METRICS /\ ~market_hours /\ ~high_volatility_period)
                 => last.result = 600

\* C16 witness: get_ttl("network_metrics", False, False) has returned 600
C16_Witness ==
    /\ last.op = "get_ttl"
    /\ last.args = <<NETWORK_METRICS, FALSE, FALSE>>
    /\ last.result = 600

\* C17: under one pair of flags, a tag whose class comes no later in the
\* enumeration ULTRA_HIGH, HIGH, MEDIUM, LOW, VERY_LOW gets a TTL that is no
\* longer; "order_book" gets a strictly shorter TTL than "active_addresses".
C17_TTLMonotone ==
    last.op = "get_ttl_pair" =>
        /\ ClassRank(last.args[1]) <= ClassRank(last.args[2])
              => last.result[1] <= last.result[2]
        /\ (last.args[1] = ORDER_BOOK /\ last.args[2] = ACTIVE_ADDRESSES)
              => last.result[1] < last.result[2]

\* C17 witness: "order_book" and "active_addresses" in market hours outside a
\* high-volatility period: 10 and 300 seconds
C17_Witness ==
    /\ last.op = "get_ttl_pair"
    /\ last.args = <<ORDER_BOOK, ACTIVE_ADDRESSES, TRUE, FALSE>>
    /\ last.result = <<10, 300>>

\* C14: with the cache backend unreachable, a get_metrics_batch call with
\* use_cache=True does not raise, and returns the result map and makes the
\* loader calls of the same call with use_cache=False on the same providers
\* and the same loader behaviour.
C14_SameAsUncached ==
    (last.op = "get_metrics_batch" /\ last.use_cache /\ ~(cache_enabled /\ redis_up)) =>
        LET r == get_metrics_batch(last.before, cache_enabled, last.cache,
                                   last.requests, FALSE, last.args[1], last.args[2])
        IN /\ ~r.raised
           /\ ~last.raised
           /\ last.results = r.results
           /\ last.calls = r.calls

\* the call recorded in last was made while Redis could not be reached: the
\* manager was constructed without Redis, or Redis did not answer the call
Unreachable == ~cache_enabled \/ last.target = 0

\* the call recorded in last was made on a manager constructed with Redis
\* while Redis answered
Reachable == cache_enabled /\ last.target = 1

\* C13: a cache operation called while the backend is unreachable does not
\* raise and leaves the store alone; get returns None, set returns False,
\* get_batch reports no hit and set_batch returns 0.
C13_UnreachableAbsorbed ==
    (last.op \in {"get", "set", "get_batch", "set_batch"} /\ Unreachable) =>
        /\ ~last.raised
        /\ store = last.cache
        /\ last.op = "get" => last.result = NoEntry
        /\ last.op = "set" => last.result = <<FALSE>>
        /\ last.op = "get_batch" =>
              \A id \in DOMAIN last.results : last.results[id] = NoEntry
        /\ last.op = "set_batch" => last.result = <<0>>

\* C13 witness: Redis stopped answering after an entry was stored; get of
\* that entry has returned None
C13_Witness ==
    /\ last.op = "get"
    /\ cache_enabled
    /\ last.target = 0
    /\ generate_cache_key(last.args[1], last.args[2]) \in DOMAIN last.cache
    /\ last.result = NoEntry

\* C15: on a reachable backend, get(e, p) after set(e, v, p) returns an entry
\* whose payload equals v while the resolved TTL has not elapsed since the
\* set, and None once it has elapsed.
C15_SetThenGet ==
    (/\ last.op = "get"
     /\ Reachable
     /\ hist # <<>>
     /\ hist[1].endpoint = last.args[1]
     /\ hist[1].params = last.args[2]) =>
        IF last.args[3] < hist[1].at + hist[1].ttl
        THEN last.result # NoEntry /\ last.result.data = hist[1].data
        ELSE last.result = NoEntry

\* C18: on a reachable backend, smart_invalidate with at least one of
\* patterns, data_types, older_than_minutes given deletes the managed entries
\* that match a given filter (data type in data_types, older than
\* older_than_minutes, endpoint containing one of patterns), keeps every
\* other entry as it was and returns the number of deleted entries.
C18_DeletesExactlyMatching ==
    (/\ last.op = "smart_invalidate"
     /\ Reachable
     /\ \E j \in 1..3 : last.args[j] # <<>>) =>
        LET patterns == last.args[1]
            data_types == last.args[2]
            older_than == last.args[3]
            now == last.args[4]
            Matches(e) ==
                \/ /\ data_types # <<>>
                   /\ \E j \in 1..Len(data_types[1]) : data_types[1][j] = e.data_type
                \/ /\ older_than # <<>>
                   /\ now - e.cached_at > older_than[1] * SECONDS_PER_MINUTE
                \/ /\ patterns # <<>>
                   /\ \E j \in 1..Len(patterns[1]) : Contains(e.endpoint, patterns[1][j])
            matched == {k \in ManagedKeys(last.cache) : Matches(last.cache[k])}
        IN /\ DOMAIN store = (DOMAIN last.cache) \ matched
           /\ \A k \in DOMAIN store : store[k] = last.cache[k]
           /\ last.result = <<Cardinality(matched)>>

\* the call recorded in last is a full flush
FullFlush ==
    \/ last.op = "clear_all_cache"
    \/ last.op = "smart_invalidate" /\ \A j \in 1..3 : last.args[j] = <<>>

\* C19: after clear_all_cache, or smart_invalidate without any filter, on a
\* reachable backend no managed key is left, get of every (endpoint, params)
\* stored before returns None, and the keys outside the "crypto_cache:"
\* prefix are as they were.
C19_FullFlush ==
    (FullFlush /\ Reachable) =>
        /\ ManagedKeys(store) = {}
        /\ \A k \in ManagedKeys(last.cache) :
              cache_get(cache_enabled, store, last.cache[k].endpoint,
                        last.cache[k].params) = NoEntry
        /\ \A k \in (DOMAIN last.cache) \ ManagedKeys(last.cache) :
              k \in DOMAIN store /\ store[k] = last.cache[k]

\* C19 witness: clear_all_cache on a Redis holding two managed entries and
\* another application's key has left that key only
C19_Witness ==
    /\ last.op = "clear_all_cache"
    /\ Reachable
    /\ Cardinality(ManagedKeys(last.cache)) = 2
    /\ FOREIGN_KEY \in DOMAIN last.cache
    /\ DOMAIN store = {FOREIGN_KEY}

\* provider i of provs was registered with add_custom_provider, advertises
\* metric, is Healthy and has a lower priority number than every other
\* eligible provider
CustomLowest(provs, i, metric) ==
    /\ i > Len(InitialProviders)
    /\ Eligible(provs, i, metric)
    /\ \A j \in 1..Len(provs) :
          (j # i /\ Eligible(provs, j, metric)) => provs[i].priority < provs[j].priority

\* C20: when a provider registered with add_custom_provider advertises the
\* metric, is Healthy and has the lowest priority among the eligible
\* providers, get_metric invokes its loader first and returns its non-empty
\* result, and get_metrics_batch invokes its loader for every request of that
\* metric.
C20_CustomProviderFirst ==
    /\ last.op = "get_metric" =>
          \A i \in 1..Len(last.before) :
              CustomLowest(last.before, i, last.metric) =>
                  /\ last.calls # <<>>
                  /\ last.calls[1].provider = i
                  /\ last.calls[1].outcome = "data" =>
                        last.result = LoaderValue(last.before[i].name,
                                                  last.metric, last.asset)
    /\ last.op = "get_metrics_batch" =>
          \A k \in 1..Len(last.requests), i \in 1..Len(last.before) :
              CustomLowest(last.before, i, last.requests[k][1]) =>
                  /\ \E c \in 1..Len(last.calls) :
                        <<last.calls[c].metric, last.calls[c].asset>> = last.requests[k]
                  /\ \A c \in 1..Len(last.calls) :
                        <<last.calls[c].metric, last.calls[c].asset>> = last.requests[k]
                            => last.calls[c].provider = i

\* no provider of provs advertises metric, Healthy or not
Unadvertised(provs, metric) ==
    \A i \in 1..Len(provs) : metric \notin provs[i].available_metrics

GroupsHolding(gs, rq) ==
    {g \in 1..Len(gs) : \E k \in 1..Len(gs[g].requests) : gs[g].requests[k] = rq}

\* C24: group_by_provider puts each unique request into exactly one group,
\* once, and that group is the one of an eligible provider (advertises the
\* metric, Healthy) that no eligible provider precedes in (priority,
\* failure_count); a request is in no group iff no provider is eligible.
C24_OneGroupOfBestProvider ==
    last.op = "group_by_provider" =>
        LET b == last.before
            gs == last.result
        IN \A r \in 1..Len(last.requests) :
              LET rq == last.requests[r]
                  holders == GroupsHolding(gs, rq)
              IN IF \E i \in 1..Len(b) : Eligible(b, i, rq[1])
                 THEN /\ Cardinality(holders) = 1
                      /\ \A g \in holders :
                            /\ Cardinality({k \in 1..Len(gs[g].requests) :
                                               gs[g].requests[k] = rq}) = 1
                            /\ \E i \in 1..Len(b) :
                                  /\ Eligible(b, i, rq[1])
                                  /\ b[i].name = gs[g].name
                                  /\ \A j \in 1..Len(b) :
                                        Eligible(b, j, rq[1]) => ~Precedes(b, j, i)
                 ELSE holders = {}

\* C24 witness: Glassnode is Unhealthy, so the "price" request is in
\* IntoTheBlock's group, and the request nobody is eligible for is in none
C24_Witness ==
    /\ last.op = "group_by_provider"
    /\ last.requests = << <<PRICE, BTC>>, <<DEFI_TVL_ETH, USD>> >>
    /\ ~last.before[1].is_healthy
    /\ Len(last.result) = 1
    /\ last.result[1].name = "IntoTheBlock"
    /\ last.result[1].requests = << <<PRICE, BTC>> >>

\* the orderings of the parameter map that params denotes, among OrderedParams
Reorderings(params) == {ps \in OrderedParams : AsMap(ps) = AsMap(params)}

\* what the store holds for (endpoint, params), NoEntry when it holds nothing
Addressed(st, endpoint, params) ==
    IF generate_cache_key(endpoint, params) \in DOMAIN st
    THEN st[generate_cache_key(endpoint, params)]
    ELSE NoEntry

\* C26: the entry addressed does not depend on the order of the parameters -
\* a set is read back by get under every ordering, a get returns what the
\* store holds for any ordering - and get_batch reports, under the
\* identifier of every request of the caller, what the store holds for it.
C26_OrderIndependentAddressing ==
    /\ (last.op = "set" /\ last.result = <<TRUE>>) =>
          \A ps \in Reorderings(last.args[3]) :
              cache_get(cache_enabled, store, last.args[1], ps)
                  = CacheEntry(last.args[1], last.args[2], last.args[3], last.args[4])
    /\ (last.op = "get" /\ last.target = 1) =>
          \A ps \in Reorderings(last.args[2]) :
              last.result = Addressed(last.cache, last.args[1], ps)
    /\ (last.op = "get_batch" /\ last.target = 1) =>
          \A j \in 1..Len(last.args[1]) :
              LET rq == last.args[1][j]
                  id == BatchCacheId(rq[1], rq[2])
              IN /\ id \in DOMAIN last.results
                 /\ last.results[id] = Addressed(last.cache, rq[1], rq[2])

\* the loader calls recorded in last that returned a value
ValueCalls == {j \in 1..Len(last.calls) : last.calls[j].outcome = "data"}

\* step 1 of a later batch call finds the value v for (metric, asset)
BatchLookupFinds(st, metric, asset, v) ==
    LET cached_results == cache_get_batch(cache_enabled, st,
                              optimize_cache_keys(<< <<metric, asset>> >>))
    IN /\ CacheMisses(<< <<metric, asset>> >>, cached_results) = <<>>
       /\ CacheHits(<< <<metric, asset>> >>, cached_results, EmptyMap)
              = Put(EmptyMap, RequestId(metric, asset), v)

\* C25: after get_metrics_batch with caching enabled, every value a loader
\* returned is in the cache under the key the batch lookup uses, so that the
\* lookup of the next batch call finds it and no provider is called for it;
\* an entry the call wrote holds such a value, never None.
C25_FreshValuesCached ==
    (last.op = "get_metrics_batch" /\ last.use_cache /\ cache_enabled /\ redis_up) =>
        /\ \A j \in ValueCalls :
              BatchLookupFinds(store, last.calls[j].metric, last.calls[j].asset,
                  LoaderValue(last.before[last.calls[j].provider].name,
                              last.calls[j].metric, last.calls[j].asset))
        /\ \A key \in DOMAIN store :
              (key \notin DOMAIN last.cache \/ store[key] # last.cache[key]) =>
                  /\ store[key].data # None
                  /\ \E j \in ValueCalls :
                        key = generate_cache_key(MetricEndpoint(last.calls[j].metric),
                                  MetricParams(last.calls[j].metric, last.calls[j].asset))

\* C27: every call of get increments exactly one of hits and misses - hits
\* iff an entry was returned - so that hits + misses is the number of get
\* calls made, and hit_ratio is hits / (hits + misses), in percent, and 0
\* when no get was made.
C27_OneCounterPerGet ==
    /\ [][last'.op = "get" =>
            IF last'.result # NoEntry
            THEN stats'.hits = stats.hits + 1 /\ stats'.misses = stats.misses
            ELSE stats'.misses = stats.misses + 1 /\ stats'.hits = stats.hits]_vars
    /\ [](/\ stats.hits + stats.misses = stats.get_calls
          /\ hit_ratio(stats).num * (stats.hits + stats.misses)
                 = PERCENT * stats.hits * hit_ratio(stats).den
          /\ (stats.get_calls = 0 => hit_ratio(stats).num = 0))

\* C28: a get_metrics_batch call whose requests all have an eligible
\* provider increases provider_calls_saved by the number of its requests
\* minus the number of loader invocations it made, which counts what the
\* cache and what deduplication saved.
C28_SavedCallsCounted ==
    [][(/\ last'.op = "get_metrics_batch"
        /\ \A j \in 1..Len(last'.requests) :
              \E i \in 1..Len(providers) : Eligible(providers, i, last'.requests[j][1])) =>
          stats'.provider_calls_saved
              = stats.provider_calls_saved + Len(last'.requests) - Len(last'.calls)]_vars

\* C29: total_batch_requests is the number of get_metrics_batch calls made,
\* those with an empty request list included, and average_batch_size is the
\* mean length of their request lists.
C29_BatchCountAndMean ==
    /\ stats.total_batch_requests = stats.batch_calls
    /\ stats.average_batch_size.num * stats.batch_calls
           = stats.batch_lengths * stats.average_batch_size.den

\* the loader calls of the batch call, in progress or returned
BatchCalls == IF exec.phase = "running" THEN exec.calls ELSE last.calls

\* the record_failure calls finished on the i-th provider, by the batch
\* call's tasks and by the other thread
FailuresRecorded(i) ==
    Cardinality({j \in 1..Len(BatchCalls) :
                    BatchCalls[j].provider = i /\ BatchCalls[j].outcome = "raise"})
    + threads[1].recorded[i]

\* no thread is inside record_failure
NoUpdateInProgress == threads[1].pc \notin {"load", "store", "test"}

\* C22: no health update is lost when a batch call and a get_metric call run
\* at the same time - once k record_failure calls on a provider have
\* finished, with no success and no reset, its failure_count is k and it is
\* Unhealthy iff k >= 3.
C22_NoLostUpdate ==
    NoUpdateInProgress =>
        \A i \in 1..Len(providers) :
            /\ providers[i].failure_count = FailuresRecorded(i)
            /\ providers[i].is_healthy <=> (FailuresRecorded(i) < HEALTH_THRESHOLD)

\* the providers the tasks of a batch call may run on, given the registry's
\* providers when the call started
GroupProviders(before, unique) ==
    {ProviderByName(before, group_by_provider(unique, before, <<>>)[g].name) :
        g \in 1..Len(group_by_provider(unique, before, <<>>))}

BatchReturns == exec.phase = "running" /\ exec'.phase = "idle"

\* C30: get_metrics_batch returns only when every submitted group task has
\* finished, with its results or with an exception; what it returns holds
\* the results of every task that returned, also when another task ended
\* with an exception; and a call whose loader invocations all terminate
\* returns.
C30_JoinMergeTerminate ==
    /\ [][BatchReturns =>
            /\ \A t \in 1..Len(exec.tasks) : exec.tasks[t].status \in {"done", "failed"}
            /\ ~last'.raised
            /\ \A t \in 1..Len(exec.tasks) :
                  exec.tasks[t].status = "done" =>
                      \A id \in DOMAIN exec.tasks[t].results :
                          /\ id \in DOMAIN last'.results
                          /\ last'.results[id] = exec.tasks[t].results[id]]_vars
    /\ (exec.phase # "idle") ~> (exec.phase = "idle")

\* C30 witness: Dune's task ended with an exception after its loader had
\* returned data, and the call returned Glassnode's result
C30_Witness ==
    /\ last.op = "get_metrics_batch"
    /\ ~last.raised
    /\ last.requests = << <<PRICE, BTC>>, <<DEFI_TVL, ETH>> >>
    /\ \A j \in 1..Len(last.calls) : last.calls[j].outcome = "data"
    /\ Len(last.calls) = 2
    /\ DOMAIN last.results = {RequestId(PRICE, BTC)}
    /\ last.results[RequestId(PRICE, BTC)] = LoaderValue("Glassnode", PRICE, BTC)

\* the cache key of the entry for (metric, asset)
MetricKey(metric, asset) ==
    generate_cache_key(MetricEndpoint(metric), MetricParams(metric, asset))

\* the loader calls recorded in last that were made for (metric, asset)
CallsFor(metric, asset) ==
    LET ForPair(c) == c.metric = metric /\ c.asset = asset
    IN SelectSeq(last.calls, ForPair)

C31_Unanswered ==
    /\ last.op = "warm_critical_metrics"
    /\ last.args = << <<ETH>>, <<DEFI_TVL, PRICE>> >>
    /\ Len(CallsFor(PRICE, ETH)) = 3
    /\ MetricKey(PRICE, ETH) \notin DOMAIN store
    /\ MetricKey(DEFI_TVL, ETH) \in (DOMAIN store) \ (DOMAIN last.cache)


\* the providers whose loader returned, during the call recorded in last, a
\* value that the call's results hold
Contributors ==
    {last.before[last.calls[j].provider].name :
        j \in {h \in ValueCalls :
                 LET c == last.calls[h]
                     id == RequestId(c.metric, c.asset)
                 IN /\ id \in DOMAIN last.results
                    /\ last.results[id]
                           = LoaderValue(last.before[c.provider].name, c.metric, c.asset)}}

\* C32: the data_sources of get_comprehensive_analysis are exactly the names
\* of the providers whose loader returned, during this call, a value that the
\* analysis holds; a provider that supplied nothing in this call is not
\* listed.
C32_DataSourcesAreContributors ==
    (last.op = "get_comprehensive_analysis" /\ ~last.raised) =>
        last.result.data_sources = Contributors


\* C33: the names of the registered providers are pairwise distinct, after
\* the registry's initialisation and after every add_custom_provider call,
\* so that a name identifies one provider.
C33_NamesDistinct ==
    \A i, j \in 1..Len(providers) :
        i # j => providers[i].name # providers[j].name


\* the position of the first occurrence of the pair rq in the list requests
FirstOccurrence(requests, rq) ==
    CHOOSE j \in 1..Len(requests) :
        requests[j] = rq /\ \A h \in 1..(j - 1) : requests[h] # rq

\* C34: two requests of a batch are one request exactly when they have the
\* same metric and the same asset. In a get_metrics_batch call that does not
\* use the cache, every (metric, asset) pair of the list that has an eligible
\* provider is fetched by exactly one loader call, however often it occurs,
\* and the pairs one provider fetches are fetched in the order of their
\* first occurrences.
C34_SameRequestIffSamePair ==
    (last.op = "get_metrics_batch" /\ ~last.use_cache) =>
        /\ \A j \in 1..Len(last.requests) :
              (\E i \in 1..Len(last.before) : Eligible(last.before, i, last.requests[j][1]))
                  => Cardinality({c \in 1..Len(last.calls) :
                                     /\ last.calls[c].metric = last.requests[j][1]
                                     /\ last.calls[c].asset = last.requests[j][2]}) = 1
        /\ \A a, b \in 1..Len(last.calls) :
              (a < b /\ last.calls[a].provider = last.calls[b].provider) =>
                  FirstOccurrence(last.requests,
                                  <<last.calls[a].metric, last.calls[a].asset>>)
                      < FirstOccurrence(last.requests,
                                        <<last.calls[b].metric, last.calls[b].asset>>)


\* the value a batch call returned for (metric, asset): batch_results.get(id)
BatchValue(metric, asset) ==
    IF RequestId(metric, asset) \in DOMAIN last.results
    THEN last.results[RequestId(metric, asset)]
    ELSE None

\* what the loaders of the providers that can serve the metric may do, in
\* fallback order, given what the loaders invoked in the call of last did
ConsistentOutcomes(metric) ==
    LET avail == available_providers(last.before, metric)
    IN {oc \in FallbackOutcomes(Len(avail), BatchOutcomes) :
           \A c \in 1..Len(last.calls), k \in 1..Len(avail) :
               last.calls[c].provider = avail[k] => oc[k] = last.calls[c].outcome}

\* C35: with the cache unused, get_metrics_batch on the single request
\* (metric, asset) returns the value get_metric(metric, asset) returns from
\* the same providers, health state and loaders: the value of the next
\* eligible provider when the best one raises or returns nothing.
C35_BatchEqualsSingle ==
    (last.op = "get_metrics_batch" /\ ~last.use_cache /\ Len(last.requests) = 1) =>
        LET metric == last.requests[1][1]
            asset == last.requests[1][2]
        IN \A oc \in ConsistentOutcomes(metric) :
               BatchValue(metric, asset) = get_metric(last.before, metric, asset, oc).result


\* CryptoCacheManager.cache_stats
CacheCounters(s) ==
    [hits |-> s.hits, misses |-> s.misses, sets |-> s.sets,
     batch_requests |-> s.batch_requests, batch_hits |-> s.batch_hits]

\* C36: a get_metrics_batch call with use_cache false leaves the cache's
\* contents and the cache's counters as they were, and every value it returns
\* is what a loader returned during the call, also for a request whose entry
\* was cached: each requested pair with an eligible provider is fetched.
C36_UncachedCallLeavesCache ==
    [][(last'.op = "get_metrics_batch" /\ last.op = "none" /\ ~last'.use_cache) =>
          /\ store' = store
          /\ CacheCounters(stats') = CacheCounters(stats)
          /\ stats'.cache_hits_in_batch = stats.cache_hits_in_batch
          /\ \A j \in 1..Len(last'.requests) :
                LET metric == last'.requests[j][1]
                    asset == last'.requests[j][2]
                IN (\E i \in 1..Len(providers) : Eligible(providers, i, metric)) =>
                      \E c \in 1..Len(last'.calls) :
                          /\ last'.calls[c].metric = metric
                          /\ last'.calls[c].asset = asset
                          /\ last'.results[RequestId(metric, asset)]
                                 = Returned(last'.calls[c].outcome,
                                            providers[last'.calls[c].provider].name,
                                            metric, asset)]_vars

\* C36 witness: the entry of (defi_tvl, ETH) is cached with Dune's data, and
\* a call with use_cache false, in which Dune returns None, returns None
C36_Witness ==
    /\ last.op = "get_metrics_batch"
    /\ ~last.use_cache
    /\ last.requests = << <<DEFI_TVL, ETH>> >>
    /\ MetricKey(DEFI_TVL, ETH) \in DOMAIN last.cache
    /\ last.cache[MetricKey(DEFI_TVL, ETH)].data = LoaderValue("Dune", DEFI_TVL, ETH)
    /\ store = last.cache
    /\ Len(last.calls) = 1
    /\ last.calls[1].outcome = "none"
    /\ last.results[RequestId(DEFI_TVL, ETH)] = None
    /\ stats.sets > 0


\* provider p with the health fields of provider q
WithHealthOf(p, q) ==
    [p EXCEPT !.failure_count = q.failure_count, !.is_healthy = q.is_healthy,
              !.last_success = q.last_success]

\* C37: get_metric changes nothing but the health fields of the providers
\* whose loader it invoked. A provider that does not advertise the metric, an
\* Unhealthy one and one ordered after the provider that answered keep
\* failure_count, is_healthy and last_success; the list of providers, the
\* cache's contents and the counters are as before.
C37_SingleFetchFrame ==
    [][(last'.op = "get_metric" /\ last.op = "none") =>
          LET Invoked(i) == \E c \in 1..Len(last'.calls) : last'.calls[c].provider = i
              Answered(j) == \E c \in 1..Len(last'.calls) :
                                /\ last'.calls[c].provider = j
                                /\ last'.calls[c].outcome = "data"
          IN /\ Len(providers') = Len(providers)
             /\ \A i \in 1..Len(providers) :
                   /\ WithHealthOf(providers'[i], providers[i]) = providers[i]
                   /\ ~Invoked(i) => providers'[i] = providers[i]
                   /\ Invoked(i) => Eligible(providers, i, last'.metric)
                   /\ (\E j \in 1..Len(providers) : Answered(j) /\ Precedes(providers, j, i))
                          => ~Invoked(i)
             /\ store' = store
             /\ stats' = stats
             /\ cache_enabled' = cache_enabled]_vars

\* C37 witness: Glassnode is Unhealthy, IntoTheBlock answers, MockProvider
\* comes after it and Dune does not advertise price; the three keep their
\* health fields, while entries are cached and batch calls were counted
C37_Witness ==
    /\ last.op = "get_metric"
    /\ last.metric = PRICE
    /\ ~last.before[1].is_healthy
    /\ Len(last.calls) = 1
    /\ last.calls[1].provider = 2
    /\ last.calls[1].outcome = "data"
    /\ last.before[2].failure_count > 0
    /\ providers[2].failure_count = 0
    /\ \A i \in {1, 3, 4} : providers[i] = last.before[i]
    /\ store # EmptyMap
    /\ stats.total_batch_requests > 0


\* C38: get_metrics_batch does not raise, whatever the (metric, asset)
\* strings of the list, names that contain ':' included, and whatever the
\* loaders and the cache do; the result of every request a loader was called
\* for is what that loader returned, None if it raised.
C38_BatchNeverRaises ==
    last.op = "get_metrics_batch" =>
        /\ ~last.raised
        /\ \A c \in 1..Len(last.calls) :
              LET id == RequestId(last.calls[c].metric, last.calls[c].asset)
              IN /\ id \in DOMAIN last.results
                 /\ last.results[id]
                        = IF last.calls[c].outcome = "raise" THEN None
                          ELSE Returned(last.calls[c].outcome,
                                        last.before[last.calls[c].provider].name,
                                        last.calls[c].metric, last.calls[c].asset)


\* C39: the cache manager's batch_hits never exceeds its batch_requests, so
\* that batch_efficiency = batch_hits / max(batch_requests, 1) is at most 1.
C39_BatchHitsBounded ==
    stats.tracked => stats.batch_hits <= stats.batch_requests


\* the loader calls of the call recorded in call_log made on provider i
CallsOn(call_log, i) ==
    LET OnProvider(c) == c.provider = i
    IN SelectSeq(call_log, OnProvider)

\* the number of calls of the list cs that raised after the last call of the
\* list that returned data
RECURSIVE FailuresSinceSuccess(_)
FailuresSinceSuccess(cs) ==
    IF cs = <<>> \/ cs[Len(cs)].outcome = "data" THEN 0
    ELSE FailuresSinceSuccess(SubSeq(cs, 1, Len(cs) - 1))
         + (IF cs[Len(cs)].outcome = "raise" THEN 1 ELSE 0)

\* C40: an Unhealthy provider has at least 3 failures recorded against it
\* since its last recorded success or reset. Across a get_metric or
\* get_metrics_batch call, failure_count is the number of the provider's
\* loader calls that raised since its last call that returned data, added to
\* the count before if none returned data; so a provider none of whose
\* loader calls raised is not marked Unhealthy by the call.
C40_UnhealthyOnlyAfterFailures ==
    /\ [](\A i \in 1..Len(providers) :
             ~providers[i].is_healthy => providers[i].failure_count >= HEALTH_THRESHOLD)
    /\ [][(last.op = "none" /\ last'.op \in {"get_metric", "get_metrics_batch"}) =>
             \A i \in 1..Len(providers) :
                 LET made == CallsOn(last'.calls, i)
                     answered == \E c \in 1..Len(made) : made[c].outcome = "data"
                     raised == \E c \in 1..Len(made) : made[c].outcome = "raise"
                 IN /\ providers'[i].failure_count
                           = IF answered THEN FailuresSinceSuccess(made)
                             ELSE providers[i].failure_count + FailuresSinceSuccess(made)
                    /\ (providers[i].is_healthy /\ ~raised) => providers'[i].is_healthy
                    /\ (providers[i].is_healthy /\ ~providers'[i].is_healthy) =>
                           FailuresSinceSuccess(made) > 0]_vars

\* C40 witness: a batch call in which Dune's loader raised for both requests
\* took Dune from one recorded failure to three, and Dune is Unhealthy
C40_Witness ==
    /\ last.op = "get_metrics_batch"
    /\ Len(last.calls) = 2
    /\ \A c \in 1..2 : last.calls[c].provider = 3 /\ last.calls[c].outcome = "raise"
    /\ last.before[3].failure_count = 1
    /\ last.before[3].is_healthy
    /\ providers[3].failure_count = HEALTH_THRESHOLD
    /\ ~providers[3].is_healthy

============================================================================
